---- MODULE Spec2Model ----
(***************************************************************************)
(* A model of presquel's core: the SchemaPackage registration protocol     *)
(* (model/version.py), Order.full_sort (model/base.py) and the upgrade     *)
(* diff engine (schemagen/upgrade.py).                                     *)
(*                                                                         *)
(* Python exceptions are modelled as an "exc" field of the value an        *)
(* operation returns: once it is set, every enclosing loop and call stops  *)
(* and hands the state back as it was when the exception was raised.       *)
(***************************************************************************)
EXTENDS Integers, Sequences, FiniteSets, TLC

(***************************************************************************)
(* Bounds of the model.                                                    *)
(***************************************************************************)
\* number of registration calls made on one package
MaxRegs == 4
\* depth of nested add_branch_* / __resolve_parents frames after which the
\* interpreter gives up with RecursionError (sys.getrecursionlimit() in
\* Python; any value above the deepest finite nesting gives the same result)
MaxDepth == 12
\* number of Orders in the list handed to full_sort
MaxOrders == 3
\* number of elements of before_list and after_list together
MaxObjects == 3
\* number of changes an after object is authored with
MaxChanges == 2
\* number of decimals of a version number that is compared
MaxVersionDepth == 3
\* number of versions registered before get_newest_version is called
MaxNewest == 3
\* number of reads of schema_version of one branch
MaxReads == 3
\* number of characters of a label as it is written
MaxLabelLen == 2

(***************************************************************************)
(* Values.                                                                 *)
(***************************************************************************)
\* Python's None where a SchemaVersionNumber is expected.  Version numbers
\* of the model have depth >= 1, so the empty tuple is free to stand for it.
None == <<>>

\* SchemaVersionNumber: the tuple of its decimals.
Versions == {<<1>>, <<1, 5>>, <<2>>}

NoExc == "none"

(***************************************************************************)
(* SchemaPackage.  A package value is the record of its fields:            *)
(*   vm   __version_map: version -> SchemaBranch                           *)
(*   keys the keys of __version_map in the order of the dict, the order    *)
(*        in which the branches were stored                                *)
(*   fb   __first_branches                                                 *)
(*   upl  __unresolved_parents_loaded: [parent, branch] items              *)
(*   upz  __unresolved_parents_lazy: [parent, branch_loader, version]      *)
(*   exc  the exception raised by the call under way, or NoExc             *)
(* A SchemaBranch is [version, parent, children, lazy]; the branch objects *)
(* are identified by their version, which is sound as long as a version is *)
(* never inserted twice, and the asserts of the add operations see to that.*)
(***************************************************************************)
VARIABLES version_map, version_keys, first_branches,
          unresolved_parents_loaded, unresolved_parents_lazy, outcome,
          lastCall, prev, regs

pkVars == <<version_map, version_keys, first_branches,
            unresolved_parents_loaded, unresolved_parents_lazy, outcome,
            lastCall, prev, regs>>

EmptyPackage ==
    [vm |-> <<>>, keys |-> <<>>, fb |-> <<>>, upl |-> <<>>, upz |-> <<>>,
     exc |-> NoExc]

\* SchemaPackage.__contains__ for a SchemaVersionNumber or None argument
Contains(pk, item) ==
    IF item = None THEN FALSE ELSE item \in DOMAIN pk.vm

\* SchemaPackage.__len__
PkLen(pk) == Cardinality(DOMAIN pk.vm)

\* SchemaPackage.get_version
GetVersion(pk, version) ==
    IF version \in DOMAIN pk.vm THEN pk.vm[version] ELSE None

\* SchemaPackage.unresolved_branch_versions
RECURSIVE ItemVersions(_)
ItemVersions(items) ==
    IF items = <<>> THEN <<>>
    ELSE <<Head(items).version>> \o ItemVersions(Tail(items))

UnresolvedBranchVersions(pk) == ItemVersions(pk.upl) \o ItemVersions(pk.upz)

Raise(pk, e) == [pk EXCEPT !.exc = e]

\* SchemaBranch.__init__ followed by the store into __version_map:
\* the new branch is appended to its parent's _children.
InsertBranch(pk, version, parent, isLazy) ==
    LET sbr == [version |-> version, parent |-> parent,
                children |-> <<>>, lazy |-> isLazy]
        dom == DOMAIN pk.vm \cup {version}
        vm2 == [v \in dom |->
                  IF v = version THEN sbr
                  ELSE IF v = parent
                       THEN [pk.vm[v] EXCEPT
                               !.children = Append(@, version)]
                       ELSE pk.vm[v]]
    IN [pk EXCEPT !.vm = vm2, !.keys = Append(@, version)]

\* the deferral of add_branch_version / add_branch_loader
DeferLoaded(pk, version, parent) ==
    [pk EXCEPT !.upl = Append(@, [parent |-> parent, version |-> version])]

\* DeferLazy gone wrong: the deferred branch is also stored as a resolved
\* root branch
DeferLazyResolving(pk, version, parent) ==
    [InsertBranch(pk, version, None, TRUE) EXCEPT
       !.upz = Append(@, [parent |-> parent, version |-> version])]

DeferLazy(pk, version, parent) ==
    [pk EXCEPT !.upz = Append(@, [parent |-> parent, version |-> version])]

\* list.remove(item): drops the first equal element, ValueError if none
RECURSIVE RemoveFirst(_, _)
RemoveFirst(items, item) ==
    IF items = <<>> THEN <<>>
    ELSE IF Head(items) = item THEN Tail(items)
    ELSE <<Head(items)>> \o RemoveFirst(Tail(items), item)

InSeq(items, item) == \E i \in 1..Len(items) : items[i] = item

RECURSIVE AddBranchVersion(_, _, _, _)
RECURSIVE AddBranchLoader(_, _, _, _)
RECURSIVE ResolveParents(_, _)
RECURSIVE ResolveWhile(_, _, _)
RECURSIVE ScanLoaded(_, _, _, _, _)
RECURSIVE ScanLazy(_, _, _, _, _)
RECURSIVE RemoveLoaded(_, _)
RECURSIVE RemoveLazy(_, _)

\* the end of add_branch_version / add_branch_loader, once the second
\* __resolve_parents has returned pk: a root branch joins __first_branches
AppendFirstBranch(pk, version, parent) ==
    IF pk.exc # NoExc THEN pk
    ELSE IF parent = None THEN [pk EXCEPT !.fb = Append(@, version)]
    ELSE pk

\* the branch is created and stored, then the deferred items are resolved
StoreBranch(pk, version, parent, isLazy, depth) ==
    AppendFirstBranch(
        ResolveParents(InsertBranch(pk, version, parent, isLazy), depth + 1),
        version, parent)

\* add_branch_version once its first __resolve_parents has returned pk:
\* deferred if the parent is still not resolved
AfterResolveLoaded(pk, version, parent, depth) ==
    IF pk.exc # NoExc THEN pk
    ELSE IF ~Contains(pk, parent) THEN DeferLoaded(pk, version, parent)
    ELSE StoreBranch(pk, version, parent, FALSE, depth)

\* add_branch_loader once its first __resolve_parents has returned pk
AfterResolveLazy(pk, version, parent, depth) ==
    IF pk.exc # NoExc THEN pk
    ELSE IF ~Contains(pk, parent) THEN DeferLazy(pk, version, parent)
    ELSE StoreBranch(pk, version, parent, TRUE, depth)

\* SchemaPackage.add_branch_version
AddBranchVersion(pk, version, parent, depth) ==
    IF depth > MaxDepth THEN Raise(pk, "RecursionError")
    ELSE IF Contains(pk, version) THEN Raise(pk, "AssertionError")
    ELSE IF ~((parent # None) \/ ~Contains(pk, parent))
         THEN StoreBranch(pk, version, parent, FALSE, depth)
    ELSE IF parent = None THEN Raise(pk, "AssertionError")
    ELSE AfterResolveLoaded(ResolveParents(pk, depth + 1), version, parent,
                            depth)

\* SchemaPackage.add_branch_loader
AddBranchLoader(pk, version, parent, depth) ==
    IF depth > MaxDepth THEN Raise(pk, "RecursionError")
    ELSE IF Contains(pk, version) THEN Raise(pk, "AssertionError")
    ELSE IF ~((parent # None) /\ ~Contains(pk, parent))
         THEN StoreBranch(pk, version, parent, TRUE, depth)
    ELSE AfterResolveLazy(ResolveParents(pk, depth + 1), version, parent,
                          depth)

\* the state of one pass of the while loop of __resolve_parents
Scan(pk, remove, search) == [pk |-> pk, remove |-> remove, search |-> search]

\* the first for loop once add_branch_version has returned pk for the item
\* at index i: the item is marked for removal and the loop goes on
AddedLoaded(pk, i, remove, item, search, depth) ==
    IF pk.exc # NoExc THEN Scan(pk, remove, search)
    ELSE ScanLoaded(pk, i + 1, Append(remove, item), TRUE, depth)

\* the first for loop of __resolve_parents, from list index i on; the list
\* is read afresh at every step, as a Python list iterator does
ScanLoaded(pk, i, remove, search, depth) ==
    IF i > Len(pk.upl) THEN Scan(pk, remove, search)
    ELSE IF Contains(pk, pk.upl[i].parent)
         THEN AddedLoaded(AddBranchVersion(pk, pk.upl[i].version,
                                           pk.upl[i].parent, depth + 1),
                          i, remove, pk.upl[i], search, depth)
    ELSE ScanLoaded(pk, i + 1, remove, search, depth)

\* the second for loop once add_branch_loader has returned pk
AddedLazy(pk, i, remove, item, search, depth) ==
    IF pk.exc # NoExc THEN Scan(pk, remove, search)
    ELSE ScanLazy(pk, i + 1, Append(remove, item), TRUE, depth)

\* the second for loop of __resolve_parents
ScanLazy(pk, i, remove, search, depth) ==
    IF i > Len(pk.upz) THEN Scan(pk, remove, search)
    ELSE IF Contains(pk, pk.upz[i].parent)
         THEN AddedLazy(AddBranchLoader(pk, pk.upz[i].version,
                                        pk.upz[i].parent, depth + 1),
                        i, remove, pk.upz[i], search, depth)
    ELSE ScanLazy(pk, i + 1, remove, search, depth)

\* for item in remove: self.__unresolved_parents_loaded.remove(item)
RemoveLoaded(pk, remove) ==
    IF remove = <<>> THEN pk
    ELSE IF ~InSeq(pk.upl, Head(remove)) THEN Raise(pk, "ValueError")
    ELSE RemoveLoaded([pk EXCEPT !.upl = RemoveFirst(@, Head(remove))],
                      Tail(remove))

\* for item in remove: self.__unresolved_parents_lazy.remove(item)
RemoveLazy(pk, remove) ==
    IF remove = <<>> THEN pk
    ELSE IF ~InSeq(pk.upz, Head(remove)) THEN Raise(pk, "ValueError")
    ELSE RemoveLazy([pk EXCEPT !.upz = RemoveFirst(@, Head(remove))],
                    Tail(remove))

\* one pass of the while loop after the lazy items were removed
AfterRemoveLazy(pk, search, depth) ==
    IF pk.exc # NoExc THEN pk ELSE ResolveWhile(pk, search, depth)

\* one pass of the while loop after its second for loop
AfterScanLazy(s, depth) ==
    IF s.pk.exc # NoExc THEN s.pk
    ELSE AfterRemoveLazy(RemoveLazy(s.pk, s.remove), s.search, depth)

\* one pass of the while loop after the loaded items were removed
AfterRemoveLoaded(pk, search, depth) ==
    IF pk.exc # NoExc THEN pk
    ELSE AfterScanLazy(ScanLazy(pk, 1, <<>>, search, depth), depth)

\* one pass of the while loop after its first for loop
AfterScanLoaded(s, depth) ==
    IF s.pk.exc # NoExc THEN s.pk
    ELSE AfterRemoveLoaded(RemoveLoaded(s.pk, s.remove), s.search, depth)

\* the while loop of __resolve_parents
ResolveWhile(pk, search, depth) ==
    IF ~(search /\ Len(pk.upl) + Len(pk.upz) > 0) THEN pk
    ELSE AfterScanLoaded(ScanLoaded(pk, 1, <<>>, FALSE, depth), depth)

\* SchemaPackage.__resolve_parents
ResolveParents(pk, depth) ==
    IF depth > MaxDepth THEN Raise(pk, "RecursionError")
    ELSE ResolveWhile(pk, TRUE, depth)

(***************************************************************************)
(* The package as a state machine.  load_package (parser/file_loader.py)   *)
(* is the only caller of the registration operations and catches nothing:  *)
(* a call that raises ends the loading, so no further call is made on that *)
(* package.  outcome is the result of the last call, lastCall its          *)
(* arguments and prev the package as it was before the call.               *)
(***************************************************************************)
Package ==
    [vm |-> version_map, keys |-> version_keys, fb |-> first_branches,
     upl |-> unresolved_parents_loaded, upz |-> unresolved_parents_lazy,
     exc |-> NoExc]

NoCall == [op |-> "none", version |-> None, parent |-> None]

InitPackage ==
    /\ version_map = <<>>
    /\ version_keys = <<>>
    /\ first_branches = <<>>
    /\ unresolved_parents_loaded = <<>>
    /\ unresolved_parents_lazy = <<>>
    /\ outcome = "none"
    /\ lastCall = NoCall
    /\ prev = EmptyPackage
    /\ regs = 0

Returned(pk, op, version, parent) ==
    /\ version_map' = pk.vm
    /\ version_keys' = pk.keys
    /\ first_branches' = pk.fb
    /\ unresolved_parents_loaded' = pk.upl
    /\ unresolved_parents_lazy' = pk.upz
    /\ outcome' = IF pk.exc = NoExc THEN "ok" ELSE pk.exc
    /\ lastCall' = [op |-> op, version |-> version, parent |-> parent]
    /\ prev' = Package
    /\ regs' = regs + 1

Alive == outcome \in {"none", "ok"} /\ regs < MaxRegs

add_branch_version(version, parent) ==
    /\ Alive
    /\ Returned(AddBranchVersion(Package, version, parent, 1),
                "add_branch_version", version, parent)

add_branch_loader(version, parent) ==
    /\ Alive
    /\ Returned(AddBranchLoader(Package, version, parent, 1),
                "add_branch_loader", version, parent)

NextPackage ==
    \/ \E v \in Versions, p \in Versions \cup {None} :
           add_branch_version(v, p)
    \/ \E v \in Versions, p \in Versions \cup {None} :
           add_branch_loader(v, p)

(***************************************************************************)
(* Claims about the package.                                               *)
(***************************************************************************)
Deferred(pk) == pk.upl \o pk.upz

CountIn(items, x) == Cardinality({i \in 1..Len(items) : items[i] = x})

\* the last call registered a version the package did not hold, and it
\* declared a parent that was not a resolved branch
DeferralCall ==
    /\ lastCall.op # "none"
    /\ lastCall.parent # None
    /\ ~Contains(prev, lastCall.parent)
    /\ ~Contains(prev, lastCall.version)

\* C1: v2 was registered with declared parent v1 while v1 was unknown, and
\* v1 is registered afterwards with no parent: the second registration
\* returns normally, v2 is then a resolved branch whose parent is v1,
\* nothing is left unresolved and v1.children holds v2 exactly once.
C1_PromotionOfDeferred ==
    \A v1, v2 \in Versions :
        ( /\ v1 # v2
          /\ lastCall.op # "none"
          /\ lastCall.version = v1
          /\ lastCall.parent = None
          /\ PkLen(prev) = 0
          /\ Deferred(prev) = <<[parent |-> v1, version |-> v2]>> )
        => ( /\ outcome = "ok"
             /\ GetVersion(Package, v2) # None
             /\ GetVersion(Package, v2).parent = v1
             /\ UnresolvedBranchVersions(Package) = <<>>
             /\ CountIn(GetVersion(Package, v1).children, v2) = 1 )

\* C2: after every registration call no deferred entry has a declared
\* parent among the resolved branches, and promotion is transitive:
\* registering v3 (parent v2), v2 (parent v1), then v1 (no parent) leaves
\* v1, v2 and v3 resolved and nothing deferred.
C2_FixedPoint ==
    /\ outcome = "ok" =>
         \A i \in 1..Len(Deferred(Package)) :
             ~Contains(Package, Deferred(Package)[i].parent)
    /\ \A v1, v2, v3 \in Versions :
         ( /\ Cardinality({v1, v2, v3}) = 3
           /\ lastCall.version = v1
           /\ lastCall.parent = None
           /\ lastCall.op # "none"
           /\ PkLen(prev) = 0
           /\ Len(Deferred(prev)) = 2
           /\ InSeq(Deferred(prev), [parent |-> v2, version |-> v3])
           /\ InSeq(Deferred(prev), [parent |-> v1, version |-> v2]) )
         => ( /\ outcome = "ok"
              /\ DOMAIN version_map = {v1, v2, v3}
              /\ Deferred(Package) = <<>> )

\* C4: after registering v2 with declared parent v1 while v1 has never been
\* registered, unresolved_branch_versions contains v1, the parent that was
\* referenced but never supplied.
C4_UnresolvedReportsMissingParent ==
    ( /\ DeferralCall
      /\ outcome = "ok"
      /\ ~InSeq(ItemVersions(Deferred(prev)), lastCall.parent) )
    => InSeq(UnresolvedBranchVersions(Package), lastCall.parent)

\* C5: registering a branch with parent None, by add_branch_version or by
\* add_branch_loader, inserts it at once as a resolved root branch: the
\* call does not fail, get_version returns the branch and its parent is
\* None.
C5_RootInsertedImmediately ==
    ( /\ lastCall.op # "none"
      /\ lastCall.parent = None
      /\ ~Contains(prev, lastCall.version) )
    => ( /\ outcome = "ok"
         /\ GetVersion(Package, lastCall.version) # None
         /\ GetVersion(Package, lastCall.version).parent = None )

\* C27: every call of add_branch_version or add_branch_loader finishes.  A
\* call whose nested add_branch_* / __resolve_parents frames never stop
\* nesting is ended by the interpreter with RecursionError, so termination
\* means that no registration call ends that way.
C27_RegistrationTerminates == outcome # "RecursionError"

\* a registration as load_package performs it; nothing is called on a
\* package after a call has raised
Register(pk, call) ==
    IF pk.exc # NoExc THEN pk
    ELSE IF call.op = "add_branch_version"
         THEN AddBranchVersion(pk, call.version, call.parent, 1)
         ELSE AddBranchLoader(pk, call.version, call.parent, 1)

Registrations ==
    [op : {"add_branch_version", "add_branch_loader"},
     version : Versions, parent : Versions \cup {None}]

\* what the claim compares: the resolved versions, the parent and the set
\* of children of each resolved branch, the set of unresolved versions
Tree(pk) ==
    [v \in DOMAIN pk.vm |->
        [parent |-> pk.vm[v].parent,
         children |-> {pk.vm[v].children[i] :
                           i \in 1..Len(pk.vm[v].children)}]]

Unresolved(pk) ==
    {UnresolvedBranchVersions(pk)[i] :
         i \in 1..Len(UnresolvedBranchVersions(pk))}

SameTree(pk1, pk2) ==
    /\ Tree(pk1) = Tree(pk2)
    /\ Unresolved(pk1) = Unresolved(pk2)

\* C30: two registrations of distinct versions end in the same package
\* state in either order: the same resolved versions, the same parent and
\* the same set of children of each resolved branch, the same set of
\* unresolved versions.
C30_OrderIndependent ==
    \A first \in Registrations :
        ( /\ regs = 2
          /\ first.version # lastCall.version
          /\ Register(EmptyPackage, first) = prev )
        => SameTree(Register(Register(EmptyPackage, lastCall), first),
                    Package)

(***************************************************************************)
(* Order and Order.full_sort (model/base.py).                              *)
(*                                                                         *)
(* A label is a Python str, modelled as the sequence of its characters.    *)
(* An Order is [order, before, after]: the natural key and the two cleaned *)
(* label tuples.  Order defines no __eq__ or __hash__, so the Orders of an *)
(* input list are told apart by identity: a node of the dependency graph   *)
(* is either the Order at an index of the input list or a label.           *)
(***************************************************************************)
\* ord() of the characters the model uses
CodePoint(c) ==
    CASE c = "." -> 46
      [] c = "D" -> 68
      [] c = "_" -> 95
      [] c = "d" -> 100
      [] c = "x" -> 120
      [] c = "y" -> 121

\* str.isalnum() of one character
IsAlnum(c) == c \in {"D", "d", "x", "y"}

\* Order._clean_order_str; the empty result stands for the None it returns
RECURSIVE CleanOrderStr(_)
CleanOrderStr(order_str) ==
    IF order_str = <<>> THEN <<>>
    ELSE IF IsAlnum(Head(order_str)) \/ Head(order_str) = "."
         THEN <<Head(order_str)>> \o CleanOrderStr(Tail(order_str))
         ELSE CleanOrderStr(Tail(order_str))

\* Order._clean_order_list
RECURSIVE CleanOrderList(_)
CleanOrderList(labels) ==
    IF labels = <<>> THEN <<>>
    ELSE LET cleaned == CleanOrderStr(Head(labels))
         IN IF cleaned # <<>>
            THEN <<cleaned>> \o CleanOrderList(Tail(labels))
            ELSE CleanOrderList(Tail(labels))

\* Order.__init__
NewOrder(order, before, after) ==
    [order |-> order,
     before |-> CleanOrderList(before),
     after |-> CleanOrderList(after)]

\* Order.__sub__
RECURSIVE OrderSubFrom(_, _, _)
OrderSubFrom(a, b, i) ==
    IF i > Len(a) THEN 0
    ELSE IF a[i] - b[i] # 0 THEN a[i] - b[i]
    ELSE OrderSubFrom(a, b, i + 1)

\* OrderSub gone wrong: only the first component is compared
OrderSubFirstOnly(a, b) == a.order[1] - b.order[1]

OrderSub(a, b) == OrderSubFrom(a.order, b.order, 1)

\* str.__lt__: lexicographic by code point, a proper prefix is smaller
RECURSIVE StrLt(_, _)
StrLt(a, b) ==
    IF b = <<>> THEN FALSE
    ELSE IF a = <<>> THEN TRUE
    ELSE IF CodePoint(Head(a)) # CodePoint(Head(b))
         THEN CodePoint(Head(a)) < CodePoint(Head(b))
         ELSE StrLt(Tail(a), Tail(b))

OrderNode(i) == [t |-> "order", i |-> i, s |-> <<>>]
LabelNode(s) == [t |-> "str", i |-> 0, s |-> s]

\* input_sorter of full_sort, for the nodes of the input list os
InputSorter(os, a, b) ==
    IF a.t = "str"
    THEN IF b.t = "str"
         THEN \* (a == b and 0) or (a < b and -1) or 1: "a == b and 0"
              \* is 0, which is false, so equal strings end at 1
              IF StrLt(a.s, b.s) THEN -1 ELSE 1
         ELSE 1
    ELSE IF b.t = "str" THEN -1
    ELSE OrderSub(os[a.i], os[b.i])

\* list.sort(key=functools.cmp_to_key(input_sorter)): a stable sort that
\* only asks whether input_sorter(x, y) < 0
RECURSIVE InsertSorted(_, _, _)
InsertSorted(os, sorted, x) ==
    IF sorted = <<>> THEN <<x>>
    ELSE LET last == sorted[Len(sorted)]
         IN IF InputSorter(os, x, last) < 0
            THEN Append(InsertSorted(os, SubSeq(sorted, 1, Len(sorted) - 1),
                                     x), last)
            ELSE Append(sorted, x)

RECURSIVE SortFrom(_, _, _, _)
SortFrom(os, items, i, sorted) ==
    IF i > Len(items) THEN sorted
    ELSE SortFrom(os, items, i + 1, InsertSorted(os, sorted, items[i]))

\* SortNodes gone wrong: the list is left in the order it came in
SortNodesUnsorted(os, items) == items

SortNodes(os, items) == SortFrom(os, items, 1, <<>>)

\* the loop of full_sort that turns before / after into depends and grows
\* input_list: g is [depends, input_list], i the index of the Order at
\* hand and j the index into its occurs_before
\* DependOn gone wrong: without the "if name in depends" branch the list of
\* a label is overwritten by its latest Order
DependOnOverwriting(g, name, node) ==
    [depends |->
       [n \in DOMAIN g.depends \cup {name} |->
          IF n = name THEN <<node>> ELSE g.depends[n]],
     input_list |-> IF name \in DOMAIN g.depends THEN g.input_list
                    ELSE Append(g.input_list, name)]

\* the body of "for name in order.occurs_before": the label depends on the
\* Order; a label seen for the first time joins depends and input_list
DependOn(g, name, node) ==
    IF name \in DOMAIN g.depends
    THEN [g EXCEPT !.depends[name] = Append(@, node)]
    ELSE [depends |->
            [n \in DOMAIN g.depends \cup {name} |->
               IF n = name THEN <<node>> ELSE g.depends[n]],
          input_list |-> Append(g.input_list, name)]

\* the loop of full_sort that turns before / after into depends and grows
\* input_list: g is [depends, input_list], i the index of the Order at
\* hand and j the index into its occurs_before
RECURSIVE AddBefore(_, _, _, _)
AddBefore(g, os, i, j) ==
    IF j > Len(os[i].before) THEN g
    ELSE AddBefore(DependOn(g, LabelNode(os[i].before[j]), OrderNode(i)),
                   os, i, j + 1)

RECURSIVE LabelNodes(_)
LabelNodes(labels) ==
    IF labels = <<>> THEN <<>>
    ELSE <<LabelNode(Head(labels))>> \o LabelNodes(Tail(labels))

RECURSIVE BuildDepends(_, _, _)
BuildDepends(g, os, i) ==
    IF i > Len(os) THEN g
    ELSE
      LET g1 == [g EXCEPT !.depends =
                   [n \in DOMAIN g.depends \cup {OrderNode(i)} |->
                      IF n = OrderNode(i) THEN LabelNodes(os[i].after)
                      ELSE g.depends[n]]]
      IN BuildDepends(AddBefore(g1, os, i, 1), os, i + 1)

CyclicError == "cyclic dependency in orders"
BadSortError == "Unexpected internal error (bad sort algorithm)"

\* Order.__tsort.  st is [visiting, visited, visiting_stack, ret, exc]:
\* visiting holds the nodes n with is_visiting[n] = True, visited those
\* with is_visiting[n] = False.
\* "n not in is_visiting" and "is_visiting[n]"
NotSeen(st, n) == n \notin st.visiting \cup st.visited

\* IsVisiting gone wrong: an active node is taken for a finished one
IsVisitingNever(st, n) == FALSE

IsVisiting(st, n) == n \in st.visiting

RECURSIVE TSort(_, _, _)
RECURSIVE TSortDeps(_, _, _, _)
TSort(st, input_val, depends) ==
    LET st1 == [st EXCEPT !.visiting = @ \cup {input_val},
                          !.visited = @ \ {input_val},
                          !.visiting_stack = Append(@, input_val)]
        st2 == IF input_val \in DOMAIN depends
               THEN TSortDeps(st1, depends[input_val], 1, depends)
               ELSE st1
    IN IF st2.exc # NoExc THEN st2
       ELSE
         LET n == Len(st2.visiting_stack)
             recent == st2.visiting_stack[n]
             st3 == [st2 EXCEPT
                       !.visiting_stack = SubSeq(@, 1, n - 1)]
         IN IF recent # input_val THEN [st3 EXCEPT !.exc = BadSortError]
            ELSE [st3 EXCEPT !.visiting = @ \ {input_val},
                             !.visited = @ \cup {input_val},
                             !.ret = Append(@, input_val)]

\* for dep in depends[input_val]
TSortDeps(st, deps, k, depends) ==
    IF k > Len(deps) THEN st
    ELSE
      LET dep == deps[k]
      IN IF NotSeen(st, dep)
         THEN LET st1 == TSort(st, dep, depends)
              IN IF st1.exc # NoExc THEN st1
                 ELSE TSortDeps(st1, deps, k + 1, depends)
         ELSE IF IsVisiting(st, dep)
              THEN [st EXCEPT !.exc = CyclicError]
              ELSE TSortDeps(st, deps, k + 1, depends)

\* for val in input_list
RECURSIVE TSortAll(_, _, _, _)
TSortAll(st, input_list, k, depends) ==
    IF k > Len(input_list) THEN st
    ELSE
      LET val == input_list[k]
      IN IF NotSeen(st, val)
         THEN LET st1 == TSort(st, val, depends)
              IN IF st1.exc # NoExc THEN st1
                 ELSE TSortAll(st1, input_list, k + 1, depends)
         ELSE IF IsVisiting(st, val)
              THEN [st EXCEPT !.exc = CyclicError]
              ELSE TSortAll(st, input_list, k + 1, depends)

\* the last loop of full_sort: the Orders of sorted_list, as input indices
RECURSIVE OnlyOrders(_)
OnlyOrders(nodes) ==
    IF nodes = <<>> THEN <<>>
    ELSE IF Head(nodes).t = "order"
         THEN <<Head(nodes).i>> \o OnlyOrders(Tail(nodes))
         ELSE OnlyOrders(Tail(nodes))

RECURSIVE IndexNodes(_, _)
IndexNodes(i, n) ==
    IF i > n THEN <<>> ELSE <<OrderNode(i)>> \o IndexNodes(i + 1, n)

\* depends after "for dep_list in depends.values(): dep_list.sort(...)"
SortedDepends(os, depends) ==
    [n \in DOMAIN depends |-> SortNodes(os, depends[n])]

\* Order.full_sort: [exc, ret], ret the Orders as indices of the input
FullSort(os) ==
    LET g == BuildDepends([depends |-> <<>>,
                           input_list |-> IndexNodes(1, Len(os))], os, 1)
        input_list == SortNodes(os, g.input_list)
        depends == SortedDepends(os, g.depends)
        st == TSortAll([visiting |-> {}, visited |-> {},
                        visiting_stack |-> <<>>, ret |-> <<>>,
                        exc |-> NoExc],
                       input_list, 1, depends)
    IN IF st.exc # NoExc THEN [exc |-> st.exc, ret |-> <<>>]
       ELSE [exc |-> NoExc, ret |-> OnlyOrders(st.ret)]

(***************************************************************************)
(* Order.full_sort as a state machine: a caller builds a list of Orders,   *)
(* one Order at a time, and then sorts it.  sort_outcome is "none" until   *)
(* full_sort has been called, then "ok" or the message of the exception;   *)
(* sorted_list is the returned list, each Order named by its index in      *)
(* orders.                                                                 *)
(***************************************************************************)
VARIABLES orders, sort_outcome, sorted_list

sortVars == <<orders, sort_outcome, sorted_list>>

NaturalKeys == {<<0, 0, 0>>, <<0, 0, 1>>, <<0, 1, 0>>, <<1, 0, 0>>}
LabelledKeys == {<<0, 0, 0>>, <<0, 0, 1>>}
BeforeLabels == {<<>>, <<<<"x">>>>, <<<<"y">>>>}
AfterLabels == {<<>>, <<<<"x">>>>, <<<<"y">>>>, <<<<"D">>>>,
                <<<<"y">>, <<"x">>>>}

InitSort ==
    /\ orders = <<>>
    /\ sort_outcome = "none"
    /\ sorted_list = <<>>

\* Order(order, None, None) appended to the list
append_plain_order(order) ==
    /\ sort_outcome = "none"
    /\ Len(orders) < MaxOrders
    /\ orders' = Append(orders, NewOrder(order, <<>>, <<>>))
    /\ UNCHANGED <<sort_outcome, sorted_list>>

\* Order(order, before, after) appended to the list
append_labelled_order(order, before, after) ==
    /\ sort_outcome = "none"
    /\ Len(orders) < MaxOrders
    /\ ~(before = <<>> /\ after = <<>>)
    /\ orders' = Append(orders, NewOrder(order, before, after))
    /\ UNCHANGED <<sort_outcome, sorted_list>>

full_sort ==
    /\ sort_outcome = "none"
    /\ LET r == FullSort(orders)
       IN /\ sort_outcome' = IF r.exc = NoExc THEN "ok" ELSE r.exc
          /\ sorted_list' = r.ret
    /\ UNCHANGED orders

NextSort ==
    \/ \E order \in NaturalKeys : append_plain_order(order)
    \/ \E order \in LabelledKeys, before \in BeforeLabels,
          after \in AfterLabels :
           append_labelled_order(order, before, after)
    \/ full_sort

(***************************************************************************)
(* Claims about Order.full_sort.                                           *)
(***************************************************************************)
Idx == 1..Len(orders)

LabelsOf(labels) == {labels[k] : k \in 1..Len(labels)}

\* some label is in occurs_before of the Order at i and in occurs_after of
\* the Order at j: the Order at i has to come before the Order at j
MustPrecede(i, j) ==
    LabelsOf(orders[i].before) \cap LabelsOf(orders[j].after) # {}

\* j is reached from i by at least one and at most n MustPrecede steps
RECURSIVE Reaches(_, _, _)
Reaches(i, j, n) ==
    IF n = 0 THEN FALSE
    ELSE \/ MustPrecede(i, j)
         \/ \E k \in Idx : MustPrecede(i, k) /\ Reaches(k, j, n - 1)

HasCycle == \E i \in Idx : Reaches(i, i, Len(orders))

\* the position of the Order at i in the returned list, 0 if it is not there
PosOf(i) ==
    IF \E k \in 1..Len(sorted_list) : sorted_list[k] = i
    THEN CHOOSE k \in 1..Len(sorted_list) : sorted_list[k] = i
    ELSE 0

IsPermutation ==
    /\ Len(sorted_list) = Len(orders)
    /\ \A i \in Idx : PosOf(i) > 0

Sorted == sort_outcome # "none"

\* C6: whenever the constraint graph is acyclic, full_sort returns the
\* Orders with, for every label L, every Order that has L in occurs_before
\* ahead of every Order that has L in occurs_after.
C6_RespectsBeforeAfter ==
    (Sorted /\ ~HasCycle) =>
        /\ sort_outcome = "ok"
        /\ IsPermutation
        /\ \A i, j \in Idx : MustPrecede(i, j) => PosOf(i) < PosOf(j)

C6_Witness ==
    /\ sort_outcome = "ok"
    /\ \E i, j, k \in Idx :
          /\ i # k
          /\ MustPrecede(i, j) /\ MustPrecede(k, j)
          /\ OrderSub(orders[j], orders[i]) < 0
          /\ OrderSub(orders[j], orders[k]) < 0

\* C7: if the before / after labels form a dependency cycle, full_sort
\* fails with the 'cyclic dependency in orders' error and returns no
\* ordering.
C7_CycleDetected ==
    (Sorted /\ HasCycle) =>
        /\ sort_outcome = CyclicError
        /\ sorted_list = <<>>

\* the two cycles the claim names: one Order before and after x, and
\* A before x after y with B before y after x
C7_Witness ==
    /\ sort_outcome = CyclicError
    /\ \/ \E i \in Idx : MustPrecede(i, i)
       \/ \E i, j \in Idx :
             /\ i # j
             /\ orders[i].before = <<<<"x">>>> /\ orders[i].after = <<<<"y">>>>
             /\ orders[j].before = <<<<"y">>>> /\ orders[j].after = <<<<"x">>>>

OrderC == NewOrder(<<0, 0, 0>>, <<>>, <<<<"D">>>>)
OrderD == NewOrder(<<0, 0, 1>>, <<>>, <<>>)

\* C8 as stated: full_sort([C, D]), C = (0,0,0) with occurs_after = ["D"]
\* and D = (0,0,1) without labels, returns D before C.
C8_AfterLabelOverridesKey ==
    (Sorted /\ orders = <<OrderC, OrderD>>) =>
        /\ sort_outcome = "ok"
        /\ PosOf(2) < PosOf(1)

\* C8 amended: no Order declares occurs_before "D", so the after-label of C
\* constrains nothing: full_sort of C and D, given in either order,
\* returns C before D, the order of their natural keys.
C8_AfterLabelWithoutBefore ==
    /\ (Sorted /\ orders = <<OrderC, OrderD>>) =>
          (sort_outcome = "ok" /\ sorted_list = <<1, 2>>)
    /\ (Sorted /\ orders = <<OrderD, OrderC>>) =>
          (sort_outcome = "ok" /\ sorted_list = <<2, 1>>)

C8_Witness ==
    /\ sort_outcome = "ok"
    /\ orders = <<OrderD, OrderC>>
    /\ sorted_list = <<2, 1>>

\* lexicographic (source, group, sequence) comparison of two natural keys
LexLeq(a, b) ==
    \/ a[1] < b[1]
    \/ a[1] = b[1] /\ a[2] < b[2]
    \/ a[1] = b[1] /\ a[2] = b[2] /\ a[3] <= b[3]

NoLabels ==
    \A i \in Idx : orders[i].before = <<>> /\ orders[i].after = <<>>

\* C9: full_sort of Orders that all have empty occurs_before and
\* occurs_after returns exactly those Orders in non-decreasing
\* lexicographic order of their (source, group, sequence) triples.
C9_NaturalOrderWithoutLabels ==
    (Sorted /\ NoLabels) =>
        /\ sort_outcome = "ok"
        /\ IsPermutation
        /\ \A k \in 1..(Len(sorted_list) - 1) :
              LexLeq(orders[sorted_list[k]].order,
                     orders[sorted_list[k + 1]].order)

\* three Orders handed over in decreasing order, differing in the second
\* and third component
C9_Witness ==
    /\ sort_outcome = "ok"
    /\ NoLabels
    /\ Len(orders) = 3
    /\ orders[1].order = <<1, 0, 0>>
    /\ orders[2].order = <<0, 1, 0>>
    /\ orders[3].order = <<0, 0, 1>>
    /\ sorted_list = <<3, 2, 1>>

(***************************************************************************)
(* The schema entity model (model/schema.py, model/change.py).             *)
(*                                                                         *)
(* A schema object or a change is a record whose kind is its Python class. *)
(* NoneObj is Python's None where such an object is expected, NoneStr      *)
(* where a str is.                                                         *)
(***************************************************************************)
NoneObj == [kind |-> "None"]
NoneStr == "<None>"

\* SchemaObject.create_full_name
RECURSIVE JoinParts(_)
JoinParts(parts) ==
    IF parts = <<>> THEN ""
    ELSE LET part == IF Head(parts) = NoneStr THEN "" ELSE Head(parts)
         IN IF Len(parts) = 1 THEN part
            ELSE part \o "." \o JoinParts(Tail(parts))

CreateFullName(parts) == JoinParts(parts)

\* SchemaObject.__init__
SchemaObject(kind, name, order, object_type, changes, full_name) ==
    [kind |-> kind, name |-> name,
     full_name |-> IF full_name = NoneStr \/ full_name = ""
                   THEN name ELSE full_name,
     order |-> order, object_type |-> object_type, changes |-> changes,
     columns |-> <<>>, constraints |-> <<>>]

\* ColumnarSchemaObject.__init__
ColumnarSchemaObject(kind, order, catalog_name, schema_name, name, columns, top_constraints, object_type, changes) ==
    [SchemaObject(kind, name, order, object_type, changes,
                  CreateFullName(<<catalog_name, schema_name, name>>))
       EXCEPT !.columns = columns, !.constraints = top_constraints]

\* Table.__init__
Table(order, catalog_name, schema_name, table_name, columns, table_constraints, changes) ==
    ColumnarSchemaObject("Table", order, catalog_name, schema_name,
                         table_name, columns, table_constraints, "table",
                         changes)

\* View.__init__
View(order, catalog_name, schema_name, view_name, columns, table_constraints, changes) ==
    ColumnarSchemaObject("View", order, catalog_name, schema_name,
                         view_name, columns, table_constraints, "view",
                         changes)

\* Column.__init__
Column(order, name, constraints, changes) ==
    [SchemaObject("Column", name, order, "column", changes, NoneStr)
       EXCEPT !.constraints = constraints]

\* Constraint.__init__: the constraint type is the name of the object
Constraint(order, constraint_type, changes) ==
    SchemaObject("Constraint", constraint_type, order, "constraint", changes,
                 NoneStr)

\* SchemaChange.__init__
SchemaChange(order, object_type, change_type, previous_name) ==
    [kind |-> "SchemaChange", order |-> order, object_type |-> object_type,
     change_type |-> change_type, previous_name |-> previous_name]

\* SqlChange.__init__
SqlChange(order, object_type) ==
    [kind |-> "SqlChange", order |-> order, object_type |-> object_type,
     change_type |-> "sql"]

\* isinstance(x, SchemaObject), isinstance(x, Change),
\* isinstance(x, ColumnarSchemaObject)
IsSchemaObject(x) == x.kind \in {"Table", "View", "Column", "Constraint"}
IsChange(x) == x.kind \in {"SchemaChange", "SqlChange"}
IsColumnar(x) == x.kind \in {"Table", "View"}

\* CHANGE_TYPES
ChangeTypes == {"add", "remove", "rename", "alter", "sql"}

RECURSIVE SelectType(_, _)

\* the changes of a type, the first one only
SelectTypeFirstOnly(changes, change_type) ==
    IF \E k \in 1..Len(changes) : changes[k].change_type = change_type
    THEN <<changes[CHOOSE k \in 1..Len(changes) :
                     /\ changes[k].change_type = change_type
                     /\ \A j \in 1..(k - 1) :
                           changes[j].change_type # change_type]>>
    ELSE <<>>

\* the changes of a type, in their order
SelectType(changes, change_type) ==
    IF changes = <<>> THEN <<>>
    ELSE IF Head(changes).change_type = change_type
         THEN <<Head(changes)>> \o SelectType(Tail(changes), change_type)
         ELSE SelectType(Tail(changes), change_type)

\* _categorize_changes
CategorizeChanges(changes) ==
    [change_type \in ChangeTypes |-> SelectType(changes, change_type)]

(***************************************************************************)
(* The upgrade diff engine (schemagen/upgrade.py).                         *)
(*                                                                         *)
(* An UpgradeAnalysis is [cls, before, after, errors, warnings,            *)
(* change_categories, constraint_changes, column_upgrades, exc], a         *)
(* SchemaUpgradedSet is [upgrades, stand_alone_changes, errors, warnings,  *)
(* exc]; exc is the exception the constructor raised, or NoExc.            *)
(***************************************************************************)
\* UpgradeAnalysisProblem
Problem(obj, message) == [obj |-> obj, message |-> message]

\* the None that _create_upgrade_schema returns
NoAnalysis == [cls |-> "None", exc |-> NoExc]
NoSet == [cls |-> "None", exc |-> NoExc]

FailedAnalysis(e) == [cls |-> "None", exc |-> e]

\* str(cat) of a ChangeType, which defines no __str__
ChangeTypeStr(cat) == "<ChangeType " \o cat \o ">"

RECURSIVE SchemaUpgradedSet(_, _)
RECURSIVE WalkAfter(_, _, _)
RECURSIVE Leftovers(_, _)
RECURSIVE CreateUpgradeSchema(_, _)
RECURSIVE UpgradeAnalysisInit(_, _, _)
RECURSIVE ColumnarUpgradeAnalysis(_, _, _)
RECURSIVE TableUpgradeAnalysis(_, _)
RECURSIVE ViewUpgradeAnalysis(_, _)
RECURSIVE ColumnUpgradeAnalysis(_, _)

\* the check of the three big categories, UpgradeAnalysis.__init__
RECURSIVE BigChangeErrors(_, _, _)
BigChangeErrors(cats, categories, after) ==
    IF cats = <<>> THEN <<>>
    ELSE (IF Len(categories[Head(cats)]) > 1
          THEN <<Problem(after, "at most 1 " \o ChangeTypeStr(Head(cats))
                                 \o " is allowed")>>
          ELSE <<>>)
         \o BigChangeErrors(Tail(cats), categories, after)

\* the changes UpgradeAnalysis.__init__ categorizes
AnalysisChanges(after) ==
    IF after = NoneObj THEN <<>>
    ELSE IF IsChange(after) THEN <<after>>
    ELSE after.changes

\* the constraints UpgradeAnalysis.__init__ diffs: those of before ...
ConstraintsBefore(before, after) ==
    IF after = NoneObj \/ IsChange(after) THEN before.constraints
    ELSE IF before = NoneObj THEN <<>>
    ELSE before.constraints

\* ... against those of after
ConstraintsAfter(before, after) ==
    IF after = NoneObj \/ IsChange(after) THEN <<>>
    ELSE after.constraints

\* the check of an object without a previous version gone wrong: a remove
\* change is let through
OnlyAddErrorsIgnoringRemove(before, after, categories) ==
    IF before = NoneObj
       /\ (Len(categories["rename"]) > 0 \/ Len(categories["alter"]) > 0)
    THEN <<Problem(after, "can only add due to no previous version found")>>
    ELSE <<>>

\* UpgradeAnalysis.__init__: an object without a previous version can only
\* be added
OnlyAddErrors(before, after, categories) ==
    IF before = NoneObj
       /\ (Len(categories["remove"]) > 0
           \/ Len(categories["rename"]) > 0
           \/ Len(categories["alter"]) > 0)
    THEN <<Problem(after, "can only add due to no previous version found")>>
    ELSE <<>>

\* UpgradeAnalysis.__init__ from the categorized changes on: the general
\* checks for changes
AnalysisChecks(cls, before, after, constraint_changes, categories) ==
    LET big_change_count ==
            Len(categories["add"]) + Len(categories["remove"])
            + Len(categories["rename"])
        warnings0 ==
            IF after = NoneObj
            THEN <<Problem(before, "implicit removal of object")>>
            ELSE <<>>
        errors1 ==
            BigChangeErrors(<<"add", "remove", "rename">>, categories, after)
        errors2 ==
            IF big_change_count > 1
               \/ (big_change_count > 0
                   /\ Len(categories["alter"]) + Len(categories["sql"]) > 0)
            THEN <<Problem(after,
                     "at most 1 of an add, remove, or rename is allowed, "
                     \o "and it cannot be done with an alter or sql change")>>
            ELSE <<>>
        warnings1 ==
            IF before = NoneObj /\ Len(categories["add"]) <= 0
            THEN <<Problem(after, "implicit add")>>
            ELSE <<>>
        errors3 == OnlyAddErrors(before, after, categories)
    IN IF constraint_changes.exc # NoExc
       THEN FailedAnalysis(constraint_changes.exc)
       ELSE [cls |-> cls, before |-> before, after |-> after,
             errors |-> errors1 \o errors2 \o errors3,
             warnings |-> warnings0 \o warnings1,
             change_categories |-> categories,
             constraint_changes |-> constraint_changes,
             column_upgrades |-> NoSet,
             exc |-> NoExc]

\* UpgradeAnalysis.__init__, for the subclass cls
UpgradeAnalysisInit(cls, before, after) ==
    IF ~(before = NoneObj \/ IsSchemaObject(before))
       \/ ~(after = NoneObj \/ IsSchemaObject(after)
            \/ (IsChange(after) /\ after.change_type = "remove"))
       \/ (before = NoneObj /\ after = NoneObj)
    THEN FailedAnalysis("AssertionError")
    ELSE IF before = NoneObj /\ IsChange(after)
    THEN \* before.constraints of None
         FailedAnalysis("AttributeError")
    ELSE AnalysisChecks(cls, before, after,
                        SchemaUpgradedSet(ConstraintsBefore(before, after),
                                          ConstraintsAfter(before, after)),
                        CategorizeChanges(AnalysisChanges(after)))

\* ColumnarUpgradeAnalysis._check_column_problems
RECURSIVE InvalidColumnarChanges(_)
InvalidColumnarChanges(changes) ==
    IF changes = <<>> THEN <<>>
    ELSE (IF Head(changes).kind # "SqlChange"
          THEN <<Problem(Head(changes), "invalid columnar change")>>
          ELSE <<>>)
         \o InvalidColumnarChanges(Tail(changes))

RECURSIVE AllErrors(_)
AllErrors(upgrades) ==
    IF upgrades = <<>> THEN <<>>
    ELSE Head(upgrades).errors \o AllErrors(Tail(upgrades))

RECURSIVE AllWarnings(_)
AllWarnings(upgrades) ==
    IF upgrades = <<>> THEN <<>>
    ELSE Head(upgrades).warnings \o AllWarnings(Tail(upgrades))

RECURSIVE ColumnChanges(_)
ColumnChanges(changes) ==
    IF changes = <<>> THEN <<>>
    ELSE IF Head(changes).object_type = "column"
         THEN <<Head(changes)>> \o ColumnChanges(Tail(changes))
         ELSE ColumnChanges(Tail(changes))

\* ColumnarUpgradeAnalysis.__init__ once column_upgrades is constructed
WithColumnUpgrades(ua, column_upgrades) ==
    IF column_upgrades.exc # NoExc THEN FailedAnalysis(column_upgrades.exc)
    ELSE [ua EXCEPT
            !.errors = @ \o column_upgrades.errors
                         \o InvalidColumnarChanges(
                               column_upgrades.stand_alone_changes)
                         \o AllErrors(column_upgrades.upgrades),
            !.warnings = @ \o column_upgrades.warnings
                           \o AllWarnings(column_upgrades.upgrades),
            !.column_upgrades = column_upgrades]

\* ColumnarUpgradeAnalysis.__init__ after UpgradeAnalysis.__init__, whose
\* result is ua
ColumnarChecks(ua, before, after) ==
    IF ua.exc # NoExc THEN ua
    ELSE IF ~(before = NoneObj \/ IsColumnar(before))
            \/ ~(after = NoneObj \/ after.kind = "SchemaChange"
                 \/ IsColumnar(after))
         THEN FailedAnalysis("AssertionError")
    ELSE IF after # NoneObj /\ before # NoneObj /\ IsColumnar(after)
         THEN WithColumnUpgrades(
                ua,
                SchemaUpgradedSet(before.columns,
                                  after.columns
                                  \o ColumnChanges(after.changes)))
    ELSE ua

\* ColumnarUpgradeAnalysis.__init__, for the subclass cls
ColumnarUpgradeAnalysis(cls, before, after) ==
    ColumnarChecks(UpgradeAnalysisInit(cls, before, after), before, after)

\* 'cannot upgrade directly from a ' + before.object_type + ...: the
\* operands are a str and a SchemaObjectType, which str.__add__ refuses
KindMismatch(ua, before, kind_type) ==
    IF ua.exc # NoExc THEN ua
    ELSE IF before # NoneObj /\ before.object_type # kind_type
         THEN FailedAnalysis("TypeError")
    ELSE ua

\* ViewUpgradeAnalysis.__init__
ViewUpgradeAnalysis(before, after) ==
    KindMismatch(ColumnarUpgradeAnalysis("ViewUpgradeAnalysis", before,
                                         after),
                 before, "view")

\* TableUpgradeAnalysis.__init__
TableUpgradeAnalysis(before, after) ==
    KindMismatch(ColumnarUpgradeAnalysis("TableUpgradeAnalysis", before,
                                         after),
                 before, "table")

\* ColumnUpgradeAnalysis.__init__ after UpgradeAnalysis.__init__, whose
\* result is ua
ColumnChecks(ua, before, after) ==
    IF ua.exc # NoExc THEN ua
    ELSE IF ~(before = NoneObj \/ before.kind = "Column")
            \/ ~(after = NoneObj \/ after.kind = "Column"
                 \/ after.kind = "SchemaChange")
         THEN FailedAnalysis("AssertionError")
    ELSE ua

\* ColumnUpgradeAnalysis.__init__
ColumnUpgradeAnalysis(before, after) ==
    ColumnChecks(UpgradeAnalysisInit("ColumnUpgradeAnalysis", before, after),
                 before, after)

\* the isinstance chain of _create_upgrade_schema on the object that is
\* present.  Its raise statement builds the message as str +
\* SchemaObjectType, so what it raises is the TypeError of that
\* concatenation.
AnalysisFor(present, before, after) ==
    IF ~IsSchemaObject(present) THEN FailedAnalysis("AssertionError")
    ELSE IF present.kind = "Table" THEN TableUpgradeAnalysis(before, after)
    ELSE IF present.kind = "View" THEN ViewUpgradeAnalysis(before, after)
    ELSE IF present.kind = "Column" THEN ColumnUpgradeAnalysis(before, after)
    ELSE FailedAnalysis("TypeError")

\* SchemaUpgradedSet._create_upgrade_schema
CreateUpgradeSchema(before, after) ==
    IF before = NoneObj THEN AnalysisFor(after, NoneObj, after)
    ELSE IF after = NoneObj THEN AnalysisFor(before, before, NoneObj)
    ELSE \* "FIXME pass": the function falls off its end and returns None
         NoAnalysis

\* before_names, a dict in insertion order, as the sequence of its values;
\* the key of a value is its full_name
HasName(before_names, name) ==
    \E i \in 1..Len(before_names) : before_names[i].full_name = name

Lookup(before_names, name) ==
    before_names[CHOOSE i \in 1..Len(before_names) :
                    before_names[i].full_name = name]

RECURSIVE DelName(_, _)
DelName(before_names, name) ==
    IF before_names = <<>> THEN <<>>
    ELSE IF Head(before_names).full_name = name THEN Tail(before_names)
    ELSE <<Head(before_names)>> \o DelName(Tail(before_names), name)

\* the first loop keeping the last-seen object of a name in the index
RECURSIVE IndexBeforeLastSeen(_, _)
IndexBeforeLastSeen(st, before_set) ==
    IF before_set = <<>> THEN st
    ELSE IF ~IsSchemaObject(Head(before_set))
         THEN [st EXCEPT !.exc = "AssertionError"]
    ELSE IF HasName(st.before_names, Head(before_set).full_name)
         THEN IndexBeforeLastSeen(
                [st EXCEPT
                   !.errors =
                      @ \o <<Problem(Head(before_set), "duplicate name"),
                             Problem(Lookup(st.before_names,
                                            Head(before_set).full_name),
                                     "duplicate name")>>,
                   !.before_names =
                      Append(DelName(@, Head(before_set).full_name),
                             Head(before_set))],
                Tail(before_set))
    ELSE IndexBeforeLastSeen(
           [st EXCEPT !.before_names = Append(@, Head(before_set))],
           Tail(before_set))

\* the first loop of SchemaUpgradedSet.__init__: st holds before_names and
\* errors.  duplicate_names stays empty, so the first-seen object is
\* reported again at every later occurrence.
RECURSIVE IndexBefore(_, _)
IndexBefore(st, before_set) ==
    IF before_set = <<>> THEN st
    ELSE IF ~IsSchemaObject(Head(before_set))
         THEN [st EXCEPT !.exc = "AssertionError"]
    ELSE IF HasName(st.before_names, Head(before_set).full_name)
         THEN IndexBefore(
                [st EXCEPT !.errors =
                   @ \o <<Problem(Head(before_set), "duplicate name"),
                          Problem(Lookup(st.before_names,
                                         Head(before_set).full_name),
                                  "duplicate name")>>],
                Tail(before_set))
    ELSE IndexBefore([st EXCEPT !.before_names = Append(@, Head(before_set))],
                     Tail(before_set))

\* the name an after element is matched under: previous_name of a remove
\* change, of the first rename change of an object, else the full_name
MatchName(obj) ==
    IF obj.kind = "SchemaChange" THEN obj.previous_name
    ELSE IF Len(CategorizeChanges(obj.changes)["rename"]) > 0
         THEN CategorizeChanges(obj.changes)["rename"][1].previous_name
    ELSE obj.full_name

\* before_names[name] if name is a key, else any object of the index
MatchedBeforeElseFirst(before_names, name) ==
    IF HasName(before_names, name) THEN Lookup(before_names, name)
    ELSE IF before_names # <<>> THEN Head(before_names)
    ELSE NoneObj

\* before_names[name] if name is a key, else the None that is paired with
\* a new object
MatchedBefore(before_names, name) ==
    IF HasName(before_names, name) THEN Lookup(before_names, name)
    ELSE NoneObj

\* upgrades.append(upgrade) and, for a match, del before_names[name]
Paired(st, upgrade, before, name) ==
    IF upgrade.exc # NoExc THEN [st EXCEPT !.exc = upgrade.exc]
    ELSE [st EXCEPT !.upgrades = Append(@, upgrade),
                    !.before_names =
                       IF before = NoneObj THEN @ ELSE DelName(@, name)]

\* pairing obj with before
PairWith(st, before, obj, name) ==
    Paired(st, CreateUpgradeSchema(before, obj), before, name)

\* the second loop with a remove change of unknown previous_name kept as a
\* stand-alone change
WalkStepKeepingUnknown(st, obj) ==
    IF obj.kind = "SqlChange"
       \/ (obj.kind = "SchemaChange"
           /\ (obj.change_type # "remove"
               \/ ~HasName(st.before_names, obj.previous_name)))
    THEN [st EXCEPT !.stand_alone_changes = Append(@, obj)]
    ELSE IF obj.kind = "SchemaChange" \/ IsSchemaObject(obj)
    THEN PairWith(st, MatchedBefore(st.before_names, MatchName(obj)), obj,
                  MatchName(obj))
    ELSE [st EXCEPT !.exc = "AssertionError"]

\* one iteration of the second loop of SchemaUpgradedSet.__init__
WalkStep(st, obj) ==
    IF obj.kind = "SqlChange"
       \/ (obj.kind = "SchemaChange" /\ obj.change_type # "remove")
    THEN [st EXCEPT !.stand_alone_changes = Append(@, obj)]
    ELSE IF obj.kind = "SchemaChange"
            /\ ~HasName(st.before_names, obj.previous_name)
    THEN [st EXCEPT !.errors = Append(@,
            Problem(obj, "remove change has no known previous object"))]
    ELSE IF obj.kind = "SchemaChange" \/ IsSchemaObject(obj)
    THEN PairWith(st, MatchedBefore(st.before_names, MatchName(obj)), obj,
                  MatchName(obj))
    ELSE [st EXCEPT !.exc = "AssertionError"]

\* the second loop of SchemaUpgradedSet.__init__, from index i on
WalkAfter(st, after_set, i) ==
    IF i > Len(after_set) \/ st.exc # NoExc THEN st
    ELSE WalkAfter(WalkStep(st, after_set[i]), after_set, i + 1)

\* upgrades.append(upgrade) and the warning of the third loop
LeftOver(st, upgrade, before) ==
    IF upgrade.exc # NoExc THEN [st EXCEPT !.exc = upgrade.exc]
    ELSE [st EXCEPT
            !.upgrades = Append(@, upgrade),
            !.warnings = Append(@,
               Problem(before, "no explicit removal for " \o before.name))]

\* the third loop of SchemaUpgradedSet.__init__: the before objects no
\* after element matched
Leftovers(st, befores) ==
    IF befores = <<>> \/ st.exc # NoExc THEN st
    ELSE Leftovers(LeftOver(st, CreateUpgradeSchema(Head(befores), NoneObj),
                            Head(befores)),
                   Tail(befores))

AllLeftovers(st) == Leftovers(st, st.before_names)

\* "if upgrade is not None": the upgrades that are kept
RECURSIVE FinalUpgrades(_)
FinalUpgrades(upgrades) ==
    IF upgrades = <<>> THEN <<>>
    ELSE IF Head(upgrades) = NoAnalysis THEN FinalUpgrades(Tail(upgrades))
    ELSE <<Head(upgrades)>> \o FinalUpgrades(Tail(upgrades))

FailedSet(e) == [cls |-> "None", exc |-> e]

\* the last two loops of SchemaUpgradedSet.__init__
Aggregate(st, final_upgrades) ==
    IF st.exc # NoExc THEN FailedSet(st.exc)
    ELSE [cls |-> "SchemaUpgradedSet",
          upgrades |-> final_upgrades,
          stand_alone_changes |-> st.stand_alone_changes,
          errors |-> st.errors \o AllErrors(final_upgrades),
          warnings |-> st.warnings \o AllWarnings(final_upgrades),
          exc |-> NoExc]

Finish(st) == Aggregate(st, FinalUpgrades(st.upgrades))

\* before_names, upgrades, errors, warnings and stand_alone_changes as
\* SchemaUpgradedSet.__init__ creates them
EmptySet ==
    [before_names |-> <<>>, upgrades |-> <<>>, errors |-> <<>>,
     warnings |-> <<>>, stand_alone_changes |-> <<>>, exc |-> NoExc]

\* SchemaUpgradedSet.__init__
SchemaUpgradedSet(before_set, after_set) ==
    Finish(AllLeftovers(WalkAfter(IndexBefore(EmptySet, before_set),
                                  after_set, 1)))

RECURSIVE SetHasChanges(_)
RECURSIVE SomeHasChanges(_)
RECURSIVE AnalysisHasChanges(_)

\* len(self.__changes): __changes is the dict _categorize_changes returns,
\* one key per change type whatever the changes are
LenChanges(ua) == Cardinality(DOMAIN ua.change_categories)

\* UpgradeAnalysis.has_changes
UpgradeAnalysisHasChanges(ua) ==
    SetHasChanges(ua.constraint_changes) \/ LenChanges(ua) > 0

\* ColumnarUpgradeAnalysis.has_changes; column_upgrades can be None, which
\* has no has_changes, but the left operand is never false
ColumnarHasChanges(ua) ==
    UpgradeAnalysisHasChanges(ua) \/ SetHasChanges(ua.column_upgrades)

\* upg.has_changes(), by the class of upg
AnalysisHasChanges(ua) ==
    IF ua.cls \in {"TableUpgradeAnalysis", "ViewUpgradeAnalysis"}
    THEN ColumnarHasChanges(ua)
    ELSE UpgradeAnalysisHasChanges(ua)

\* the loop of SchemaUpgradedSet.has_changes
SomeHasChanges(upgrades) ==
    IF upgrades = <<>> THEN FALSE
    ELSE IF AnalysisHasChanges(Head(upgrades)) THEN TRUE
    ELSE SomeHasChanges(Tail(upgrades))

\* SchemaUpgradedSet.has_changes
SetHasChanges(set) ==
    IF Len(set.stand_alone_changes) > 0 THEN TRUE
    ELSE SomeHasChanges(set.upgrades)

\* UpgradeAnalysis.order
AnalysisOrder(ua) ==
    IF ua.after = NoneObj THEN ua.before.order ELSE ua.after.order

\* x.order of an element of all_upgrades: a Change or an UpgradeAnalysis
ElementOrder(x) ==
    IF "cls" \in DOMAIN x THEN AnalysisOrder(x) ELSE x.order

\* list.sort(key=...) moving x into a sorted list, with x before the first
\* element of smaller-or-equal key
InsertByOrderUnstable(sorted, x) ==
    LET later == {k \in 1..Len(sorted) :
                     OrderSub(ElementOrder(x), ElementOrder(sorted[k])) <= 0}
    IN IF later = {} THEN Append(sorted, x)
       ELSE LET k == CHOOSE k \in later : \A j \in later : k <= j
            IN SubSeq(sorted, 1, k - 1) \o <<x>>
               \o SubSeq(sorted, k, Len(sorted))

\* list.sort(key=...) moving x into a sorted list: the sort is stable and
\* asks only key(x) < key(e), so x goes before the first element of
\* greater key
InsertByOrder(sorted, x) ==
    LET later == {k \in 1..Len(sorted) :
                     OrderSub(ElementOrder(x), ElementOrder(sorted[k])) < 0}
    IN IF later = {} THEN Append(sorted, x)
       ELSE LET k == CHOOSE k \in later : \A j \in later : k <= j
            IN SubSeq(sorted, 1, k - 1) \o <<x>>
               \o SubSeq(sorted, k, Len(sorted))

\* ret.sort(key=lambda x: x.order)
RECURSIVE SortByOrder(_, _)
SortByOrder(sorted, rest) ==
    IF rest = <<>> THEN sorted
    ELSE SortByOrder(InsertByOrder(sorted, Head(rest)), Tail(rest))

\* SchemaUpgradedSet.all_upgrades
AllUpgrades(set) ==
    SortByOrder(<<>>, set.stand_alone_changes \o set.upgrades)

(***************************************************************************)
(* The diff engine as a state machine: a caller collects the schema        *)
(* objects of the previous version and the objects and changes of the      *)
(* current one, then constructs the SchemaUpgradedSet of the two lists.    *)
(***************************************************************************)
VARIABLES before_list, after_list, upgrade_set, upgrade_outcome

upgVars == <<before_list, after_list, upgrade_set, upgrade_outcome>>

\* Order((0, 0, n), None, None)
PlainOrder(n) == NewOrder(<<0, 0, n>>, <<>>, <<>>)

\* tables and views of no catalog and no schema
PlainTable(name, columns, constraints, changes) ==
    Table(PlainOrder(0), NoneStr, NoneStr, name, columns, constraints,
          changes)

PlainView(name, columns, constraints, changes) ==
    View(PlainOrder(0), NoneStr, NoneStr, name, columns, constraints,
         changes)

TableChange(change_type, previous_name) ==
    SchemaChange(PlainOrder(0), "table", change_type, previous_name)

ColumnA == Column(PlainOrder(1), "a", <<>>, <<>>)
NotNull == Constraint(PlainOrder(2), "notnull", <<>>)

\* the objects a previous version is drawn from
BeforeObjects ==
    {PlainTable("old", <<>>, <<>>, <<>>),
     PlainTable("old", <<ColumnA>>, <<>>, <<>>),
     PlainTable("old", <<>>, <<NotNull>>, <<>>),
     PlainTable("new", <<>>, <<>>, <<>>),
     Table(PlainOrder(0), "c", "s", "old", <<>>, <<>>, <<>>),
     PlainView("old", <<>>, <<>>, <<>>),
     ColumnA}

\* the objects and top-level changes a current version is drawn from
AfterElements ==
    {PlainTable("new", <<>>, <<>>, <<>>),
     PlainTable("new", <<>>, <<>>, <<TableChange("rename", "old")>>),
     PlainTable("new", <<>>, <<>>, <<TableChange("rename", "..old")>>),
     PlainTable("new", <<>>, <<>>, <<TableChange("rename", "c.s.old")>>),
     PlainTable("new", <<>>, <<>>, <<TableChange("add", NoneStr)>>),
     PlainTable("new", <<>>, <<>>, <<TableChange("alter", NoneStr)>>),
     PlainTable("new", <<>>, <<>>, <<TableChange("remove", "..gone")>>),
     PlainTable("new", <<>>, <<>>,
                <<TableChange("add", NoneStr),
                  TableChange("remove", "..gone")>>),
     PlainTable("new", <<>>, <<NotNull>>, <<>>),
     PlainTable("old", <<>>, <<>>, <<>>),
     PlainTable("old", <<ColumnA>>, <<>>, <<>>),
     PlainView("old", <<>>, <<>>, <<>>),
     ColumnA,
     TableChange("remove", "..old"),
     TableChange("remove", "..gone"),
     TableChange("alter", NoneStr),
     SqlChange(PlainOrder(0), "table"),
     SqlChange(PlainOrder(2), "table")}

InitUpgrade ==
    /\ before_list = <<>>
    /\ after_list = <<>>
    /\ upgrade_set = NoSet
    /\ upgrade_outcome = "none"

\* one more schema object in the previous version
append_before(obj) ==
    /\ upgrade_outcome = "none"
    /\ Len(before_list) + Len(after_list) < MaxObjects
    /\ before_list' = Append(before_list, obj)
    /\ UNCHANGED <<after_list, upgrade_set, upgrade_outcome>>

\* one more schema object or change in the current version
append_after(obj) ==
    /\ upgrade_outcome = "none"
    /\ Len(before_list) + Len(after_list) < MaxObjects
    /\ after_list' = Append(after_list, obj)
    /\ UNCHANGED <<before_list, upgrade_set, upgrade_outcome>>

\* SchemaUpgradedSet(before_list, after_list)
new_upgraded_set ==
    /\ upgrade_outcome = "none"
    /\ LET r == SchemaUpgradedSet(before_list, after_list)
       IN /\ upgrade_outcome' = IF r.exc = NoExc THEN "ok" ELSE r.exc
          /\ upgrade_set' = r
    /\ UNCHANGED <<before_list, after_list>>

NextUpgrade ==
    \/ \E obj \in BeforeObjects : append_before(obj)
    \/ \E obj \in AfterElements : append_after(obj)
    \/ new_upgraded_set

(***************************************************************************)
(* The analysis classes as a state machine: a caller authors the changes   *)
(* of an after object, picks a before object and constructs one of the     *)
(* public analysis classes on the pair.                                    *)
(***************************************************************************)
VARIABLES changes_arg, before_arg, after_arg, analysis_class, analysis,
          analysis_outcome

anVars == <<changes_arg, before_arg, after_arg, analysis_class, analysis,
           analysis_outcome>>

\* the changes an after object is authored with
AuthoredChanges ==
    {TableChange("add", NoneStr),
     TableChange("rename", "..old"),
     TableChange("remove", "..old"),
     TableChange("alter", NoneStr),
     SchemaChange(PlainOrder(0), "column", "alter", NoneStr),
     SqlChange(PlainOrder(0), "table")}

\* the before objects of an analysis
AnalysisBefores ==
    {PlainTable("old", <<>>, <<>>, <<>>),
     PlainTable("old", <<ColumnA>>, <<>>, <<>>),
     PlainTable("old", <<>>, <<NotNull>>, <<>>),
     PlainTable("old", <<>>, <<NotNull, NotNull>>, <<>>),
     PlainView("old", <<>>, <<>>, <<>>),
     ColumnA}

TableNames == {"old", "new"}
ColumnLists == {<<>>, <<ColumnA>>}
ConstraintLists == {<<>>, <<NotNull>>}

InitAnalysis ==
    /\ changes_arg = <<>>
    /\ before_arg = NoneObj
    /\ after_arg = NoneObj
    /\ analysis_class = "none"
    /\ analysis = NoAnalysis
    /\ analysis_outcome = "none"

\* one more change in the list the after object will be constructed with
append_change(change) ==
    /\ analysis_outcome = "none"
    /\ after_arg = NoneObj
    /\ Len(changes_arg) < MaxChanges
    /\ changes_arg' = Append(changes_arg, change)
    /\ UNCHANGED <<before_arg, after_arg, analysis_class, analysis,
                   analysis_outcome>>

\* the before object of the analysis
set_before(obj) ==
    /\ analysis_outcome = "none"
    /\ before_arg = NoneObj
    /\ before_arg' = obj
    /\ UNCHANGED <<changes_arg, after_arg, analysis_class, analysis,
                   analysis_outcome>>

\* the after object: Table(..., changes)
set_after_table(name, columns, constraints) ==
    /\ analysis_outcome = "none"
    /\ after_arg = NoneObj
    /\ after_arg' = PlainTable(name, columns, constraints, changes_arg)
    /\ UNCHANGED <<changes_arg, before_arg, analysis_class, analysis,
                   analysis_outcome>>

\* the after object: View(..., changes)
set_after_view ==
    /\ analysis_outcome = "none"
    /\ after_arg = NoneObj
    /\ after_arg' = PlainView("old", <<>>, <<>>, changes_arg)
    /\ UNCHANGED <<changes_arg, before_arg, analysis_class, analysis,
                   analysis_outcome>>

\* the after object: Column(..., changes)
set_after_column ==
    /\ analysis_outcome = "none"
    /\ after_arg = NoneObj
    /\ after_arg' = Column(PlainOrder(1), "a", <<>>, changes_arg)
    /\ UNCHANGED <<changes_arg, before_arg, analysis_class, analysis,
                   analysis_outcome>>

\* the after element: a remove change
set_after_remove ==
    /\ analysis_outcome = "none"
    /\ after_arg = NoneObj
    /\ changes_arg = <<>>
    /\ after_arg' = TableChange("remove", "..old")
    /\ UNCHANGED <<changes_arg, before_arg, analysis_class, analysis,
                   analysis_outcome>>

\* cls(before, after), for the three analysis classes a caller can name
Construct(cls, before, after) ==
    IF cls = "TableUpgradeAnalysis" THEN TableUpgradeAnalysis(before, after)
    ELSE IF cls = "ViewUpgradeAnalysis"
         THEN ViewUpgradeAnalysis(before, after)
    ELSE ColumnUpgradeAnalysis(before, after)

\* what a constructor call leaves: the object or the exception
Constructed(cls, ua) ==
    /\ analysis_class' = cls
    /\ analysis' = ua
    /\ analysis_outcome' = IF ua.exc = NoExc THEN "ok" ELSE ua.exc
    /\ UNCHANGED <<changes_arg, before_arg, after_arg>>

\* TableUpgradeAnalysis(before, after)
new_table_analysis ==
    /\ analysis_outcome = "none"
    /\ Constructed("TableUpgradeAnalysis",
                   Construct("TableUpgradeAnalysis", before_arg, after_arg))

\* ViewUpgradeAnalysis(before, after)
new_view_analysis ==
    /\ analysis_outcome = "none"
    /\ Constructed("ViewUpgradeAnalysis",
                   Construct("ViewUpgradeAnalysis", before_arg, after_arg))

\* ColumnUpgradeAnalysis(before, after)
new_column_analysis ==
    /\ analysis_outcome = "none"
    /\ Constructed("ColumnUpgradeAnalysis",
                   Construct("ColumnUpgradeAnalysis", before_arg, after_arg))

NextAnalysis ==
    \/ \E change \in AuthoredChanges : append_change(change)
    \/ \E obj \in AnalysisBefores : set_before(obj)
    \/ \E name \in TableNames, columns \in ColumnLists,
          constraints \in ConstraintLists :
           set_after_table(name, columns, constraints)
    \/ set_after_view
    \/ set_after_column
    \/ set_after_remove
    \/ new_table_analysis
    \/ new_view_analysis
    \/ new_column_analysis

(***************************************************************************)
(* BranchUpgradeAnalysis (schemagen/upgrade.py) over SchemaBranch and      *)
(* SchemaVersion (model/version.py).  Here a branch carries its payload:   *)
(* it is [parent, branch, branch_loader], where branch is the loaded       *)
(* SchemaVersion or NoneObj and branch_loader is the SchemaVersion the     *)
(* loader returns when called, or NoneObj when there is no loader.         *)
(***************************************************************************)
\* SchemaVersion.__init__: both lists are kept sorted
SchemaVersion(top_changes, schema) ==
    [top_changes |-> SortByOrder(<<>>, top_changes),
     schema |-> SortByOrder(<<>>, schema)]

\* SchemaBranch.__init__ of a loaded or of a lazy branch
SchemaBranch(parent, branch, branch_loader) ==
    [parent |-> parent, branch |-> branch, branch_loader |-> branch_loader]

\* SchemaBranch.is_branch_loaded
IsBranchLoaded(b) == b.branch # NoneObj

\* the value of SchemaBranch.schema_version
SchemaVersionOf(b) ==
    IF b.branch = NoneObj THEN b.branch_loader ELSE b.branch

\* SchemaBranch.schema_version that does not keep the payload it loaded
AfterSchemaVersionForgetting(b) == b

\* the branch after SchemaBranch.schema_version was read: the loaded
\* payload is kept
AfterSchemaVersion(b) == [b EXCEPT !.branch = SchemaVersionOf(b)]

\* the branch and its parent after BranchUpgradeAnalysis.__init__
AfterBranchAnalysis(b) ==
    IF b.parent = NoneObj THEN AfterSchemaVersion(b)
    ELSE [AfterSchemaVersion(b) EXCEPT
             !.parent = AfterSchemaVersion(b.parent)]

FailedBranchAnalysis(e) == [cls |-> "None", exc |-> e]

\* the end of BranchUpgradeAnalysis.__init__, the upgrade set being built
BranchAnalysisOf(schema_version, parent_version, set) ==
    IF set.exc # NoExc THEN FailedBranchAnalysis(set.exc)
    ELSE [cls |-> "BranchUpgradeAnalysis",
          schema_version |-> schema_version,
          parent_version |-> parent_version,
          upgrade_set |-> set, exc |-> NoExc]

\* all_new_values = list(schema); all_new_values.extend(top_changes)
AllNewValuesSchemaFirst(schema_version) ==
    schema_version.schema \o schema_version.top_changes

\* all_new_values = list(top_changes); all_new_values.extend(schema)
AllNewValues(schema_version) ==
    schema_version.top_changes \o schema_version.schema

\* BranchUpgradeAnalysis.__init__
BranchUpgradeAnalysis(b) ==
    IF b.parent = NoneObj
    THEN BranchAnalysisOf(SchemaVersionOf(b), NoneObj, NoSet)
    ELSE BranchAnalysisOf(
             SchemaVersionOf(b), SchemaVersionOf(b.parent),
             SchemaUpgradedSet(SchemaVersionOf(b.parent).schema,
                               AllNewValues(SchemaVersionOf(b))))

\* BranchUpgradeAnalysis.is_upgrade
IsUpgrade(ba) == ba.upgrade_set # NoSet

\* BranchUpgradeAnalysis.changes
Changes(ba) ==
    IF ~IsUpgrade(ba) THEN <<>> ELSE AllUpgrades(ba.upgrade_set)

(***************************************************************************)
(* The branch analysis as a state machine: a caller collects the schema of *)
(* the parent version and the top changes and schema of the current        *)
(* version, builds the branches, loaded or lazy, and constructs the        *)
(* BranchUpgradeAnalysis of the current branch.                            *)
(***************************************************************************)
VARIABLES parent_schema, top_changes_arg, schema_arg, current_branch,
          branch_analysis, branch_outcome

brVars == <<parent_schema, top_changes_arg, schema_arg, current_branch,
            branch_analysis, branch_outcome>>

\* the schema objects of a parent version
ParentObjects ==
    {PlainTable("old", <<>>, <<>>, <<>>),
     PlainTable("new", <<>>, <<>>, <<>>),
     PlainTable("old", <<>>, <<NotNull>>, <<>>),
     ColumnA}

\* the top-level changes of a current version
TopChanges ==
    {TableChange("remove", "..old"),
     SqlChange(PlainOrder(0), "table"),
     SqlChange(PlainOrder(2), "table")}

\* the schema objects of a current version
SchemaObjects ==
    {PlainTable("new", <<>>, <<>>, <<>>),
     PlainTable("new", <<>>, <<>>, <<TableChange("rename", "old")>>),
     PlainTable("old", <<>>, <<>>, <<>>),
     ColumnA}

InitBranch ==
    /\ parent_schema = <<>>
    /\ top_changes_arg = <<>>
    /\ schema_arg = <<>>
    /\ current_branch = NoneObj
    /\ branch_analysis = NoneObj
    /\ branch_outcome = "none"

BranchInputs == Len(parent_schema) + Len(top_changes_arg) + Len(schema_arg)

\* one more schema object in the parent version
append_parent_schema(obj) ==
    /\ branch_outcome = "none"
    /\ BranchInputs < MaxObjects
    /\ parent_schema' = Append(parent_schema, obj)
    /\ UNCHANGED <<top_changes_arg, schema_arg, current_branch,
                   branch_analysis, branch_outcome>>

\* one more top-level change in the current version
append_top_change(chg) ==
    /\ branch_outcome = "none"
    /\ BranchInputs < MaxObjects
    /\ top_changes_arg' = Append(top_changes_arg, chg)
    /\ UNCHANGED <<parent_schema, schema_arg, current_branch,
                   branch_analysis, branch_outcome>>

\* one more schema object in the current version
append_schema(obj) ==
    /\ branch_outcome = "none"
    /\ BranchInputs < MaxObjects
    /\ schema_arg' = Append(schema_arg, obj)
    /\ UNCHANGED <<parent_schema, top_changes_arg, current_branch,
                   branch_analysis, branch_outcome>>

\* SchemaBranch(parent, package, branch=version) or
\* SchemaBranch(parent, package, branch_loader=lambda v: version, version=v)
MakeBranch(parent, version, lazy) ==
    IF lazy THEN SchemaBranch(parent, NoneObj, version)
    ELSE SchemaBranch(parent, version, NoneObj)

\* the state after BranchUpgradeAnalysis(b)
BranchAnalysed(b, r) ==
    /\ current_branch' = AfterBranchAnalysis(b)
    /\ branch_analysis' = r
    /\ branch_outcome' = IF r.exc = NoExc THEN "ok" ELSE r.exc
    /\ UNCHANGED <<parent_schema, top_changes_arg, schema_arg>>

\* BranchUpgradeAnalysis(branch) of a branch without a parent
new_first_branch_analysis(lazy) ==
    /\ branch_outcome = "none"
    /\ parent_schema = <<>>
    /\ BranchAnalysed(
           MakeBranch(NoneObj, SchemaVersion(top_changes_arg, schema_arg),
                      lazy),
           BranchUpgradeAnalysis(
               MakeBranch(NoneObj, SchemaVersion(top_changes_arg, schema_arg),
                          lazy)))

\* the current branch on top of its parent branch
ChildBranch(lazy, parent_lazy) ==
    MakeBranch(MakeBranch(NoneObj, SchemaVersion(<<>>, parent_schema),
                          parent_lazy),
               SchemaVersion(top_changes_arg, schema_arg), lazy)

\* BranchUpgradeAnalysis(branch) of a branch with a parent
new_branch_analysis(lazy, parent_lazy) ==
    /\ branch_outcome = "none"
    /\ BranchAnalysed(ChildBranch(lazy, parent_lazy),
                      BranchUpgradeAnalysis(ChildBranch(lazy, parent_lazy)))

NextBranch ==
    \/ \E obj \in ParentObjects : append_parent_schema(obj)
    \/ \E chg \in TopChanges : append_top_change(chg)
    \/ \E obj \in SchemaObjects : append_schema(obj)
    \/ \E lazy \in BOOLEAN : new_first_branch_analysis(lazy)
    \/ \E lazy, parent_lazy \in BOOLEAN : new_branch_analysis(lazy, parent_lazy)

(***************************************************************************)
(* Claims about the diff engine.                                           *)
(***************************************************************************)
\* an analysis that pairs a before object with an after object
IsAnalysisOf(u, before, after) == u.before = before /\ u.after = after

\* the previous names under which a rename change can name the table "old"
\* of no catalog and no schema: its name and its full name
NamesOfOld == {"old", "..old"}

RenamedFromOld(obj) ==
    /\ obj.kind = "Table"
    /\ obj.name = "new"
    /\ Len(obj.changes) = 1
    /\ obj.changes[1].change_type = "rename"
    /\ obj.changes[1].previous_name \in NamesOfOld

RenameCase ==
    /\ Len(before_list) = 1
    /\ before_list[1].kind = "Table"
    /\ before_list[1].name = "old"
    /\ before_list[1].full_name = "..old"
    /\ Len(after_list) = 1
    /\ RenamedFromOld(after_list[1])
    /\ upgrade_outcome # "none"

\* C10: with before_list = [Table "old"] and after_list = [Table "new"
\* carrying a rename change whose previous_name names "old"], the set is
\* constructed and its upgrades are exactly one analysis, old -> new, with
\* no 'no explicit removal' warning (so no implicit add of "new" and no
\* implicit removal of "old").
C10_RenameMatchesOldToNew ==
    RenameCase =>
        /\ upgrade_outcome = "ok"
        /\ Len(upgrade_set.upgrades) = 1
        /\ IsAnalysisOf(upgrade_set.upgrades[1], before_list[1],
                        after_list[1])
        /\ upgrade_set.warnings = <<>>

\* the first object of before_list of a full name: the one the index keeps
FirstNamed(name) ==
    before_list[CHOOSE i \in 1..Len(before_list) :
                   /\ before_list[i].full_name = name
                   /\ \A j \in 1..(i - 1) : before_list[j].full_name # name]

NamedBefore(name) ==
    \E i \in 1..Len(before_list) : before_list[i].full_name = name

\* the number of analyses of the set that pair before with after
CountAnalyses(before, after) ==
    Cardinality({k \in 1..Len(upgrade_set.upgrades) :
                    IsAnalysisOf(upgrade_set.upgrades[k], before, after)})

\* after_list[i] is a remove change that names a before object, and no
\* other element of after_list is matched under that name
ExplicitRemoval(i) ==
    /\ after_list[i].kind = "SchemaChange"
    /\ after_list[i].change_type = "remove"
    /\ NamedBefore(after_list[i].previous_name)
    /\ \A j \in 1..Len(after_list) :
          j # i /\ after_list[j].kind # "SqlChange"
          => MatchName(after_list[j]) # after_list[i].previous_name

\* C11: in a constructed set, every remove change of after_list whose
\* previous_name is the full name of a before object has exactly one
\* analysis (that object -> the remove change) in upgrades, and the object
\* has no implicit removal analysis (that object -> None).
C11_ExplicitRemovalAnalysed ==
    upgrade_outcome = "ok" =>
        \A i \in 1..Len(after_list) :
            ExplicitRemoval(i) =>
                /\ CountAnalyses(FirstNamed(after_list[i].previous_name),
                                 after_list[i]) = 1
                /\ CountAnalyses(FirstNamed(after_list[i].previous_name),
                                 NoneObj) = 0

\* before_list[i] is the only before object of its full name and no element
\* of after_list is matched under that name
Unmatched(i) ==
    /\ \A j \in 1..Len(before_list) :
          j # i => before_list[j].full_name # before_list[i].full_name
    /\ \A j \in 1..Len(after_list) :
          after_list[j].kind # "SqlChange"
          => MatchName(after_list[j]) # before_list[i].full_name

InSeqOf(seq, x) == \E k \in 1..Len(seq) : seq[k] = x

\* C12: when a set is constructed from lists in which a before object is
\* matched by no after element, construction completes, upgrades holds
\* exactly one analysis (that object -> None), the set's warnings hold
\* 'no explicit removal for <name>' for the object, and the set's errors
\* hold nothing about the object.
C12_ImplicitRemoval ==
    upgrade_outcome # "none" =>
        \A i \in 1..Len(before_list) :
            Unmatched(i) =>
                /\ upgrade_outcome = "ok"
                /\ CountAnalyses(before_list[i], NoneObj) = 1
                /\ InSeqOf(upgrade_set.warnings,
                           Problem(before_list[i],
                                   "no explicit removal for "
                                   \o before_list[i].name))
                /\ \A k \in 1..Len(upgrade_set.errors) :
                      upgrade_set.errors[k].obj # before_list[i]

\* seq without its i-th element
RemoveAt(seq, i) == SubSeq(seq, 1, i - 1) \o SubSeq(seq, i + 1, Len(seq))

\* after_list[i] is a remove change whose previous_name is the full name of
\* no before object
UnknownRemoval(i) ==
    /\ after_list[i].kind = "SchemaChange"
    /\ after_list[i].change_type = "remove"
    /\ ~NamedBefore(after_list[i].previous_name)

NoPreviousObject(change) ==
    Problem(change, "remove change has no known previous object")

\* the set of the same lists without after_list[i]
WithoutAfter(i) == SchemaUpgradedSet(before_list, RemoveAt(after_list, i))

\* the set differs from the set without after_list[i] by one error only,
\* the one about after_list[i]
OnlyAddsError(i) ==
    /\ upgrade_outcome = "ok"
    /\ upgrade_set.upgrades = WithoutAfter(i).upgrades
    /\ upgrade_set.stand_alone_changes = WithoutAfter(i).stand_alone_changes
    /\ upgrade_set.warnings = WithoutAfter(i).warnings
    /\ \E k \in 1..Len(upgrade_set.errors) :
          /\ upgrade_set.errors[k] = NoPreviousObject(after_list[i])
          /\ RemoveAt(upgrade_set.errors, k) = WithoutAfter(i).errors
    /\ \A k \in 1..Len(upgrade_set.upgrades) :
          upgrade_set.upgrades[k].after # after_list[i]
    /\ ~InSeqOf(upgrade_set.stand_alone_changes, after_list[i])

\* C13: a remove change of after_list whose previous_name matches no before
\* object is recorded as the ERROR 'remove change has no known previous
\* object' and nothing else: where the lists without the change construct,
\* the lists with it construct too, with the same upgrades (no analysis of
\* the change, no before object consumed), the same stand-alone changes and
\* warnings, and that one error more.
C13_UnknownRemovalIsError ==
    upgrade_outcome # "none" =>
        \A i \in 1..Len(after_list) :
            UnknownRemoval(i) /\ WithoutAfter(i).exc = NoExc
            => OnlyAddsError(i)

C13_Witness ==
    /\ upgrade_outcome = "ok"
    /\ Len(before_list) > 0
    /\ \E i \in 1..Len(after_list) : UnknownRemoval(i)
    /\ Len(upgrade_set.upgrades) > 0

\* before_list[j] has the full name of an earlier object of before_list
LaterOccurrence(j) ==
    \E i \in 1..(j - 1) : before_list[i].full_name = before_list[j].full_name

LaterOccurrences == {j \in 1..Len(before_list) : LaterOccurrence(j)}

DuplicateName(obj) == Problem(obj, "duplicate name")

DuplicateNameErrors ==
    {k \in 1..Len(upgrade_set.errors) :
        upgrade_set.errors[k].message = "duplicate name"}

\* before_list without its later occurrences
RECURSIVE FirstOccurrences(_)
FirstOccurrences(j) ==
    IF j = 0 THEN <<>>
    ELSE IF LaterOccurrence(j) THEN FirstOccurrences(j - 1)
    ELSE Append(FirstOccurrences(j - 1), before_list[j])

WithoutDuplicates ==
    SchemaUpgradedSet(FirstOccurrences(Len(before_list)), after_list)

\* C15 as stated: a constructed set holds one 'duplicate name' error per
\* occurrence after the first (k - 1 for k objects of one name), so none
\* for the first occurrence.
C15_OneErrorPerLaterOccurrence ==
    upgrade_outcome = "ok" =>
        Cardinality(DuplicateNameErrors) = Cardinality(LaterOccurrences)

\* C15, amended: a constructed set holds exactly one 'duplicate name' error
\* for each occurrence after the first and also reports the first-seen
\* object of a duplicated name; duplicates do not make construction raise,
\* and matching goes on with the first-seen objects: upgrades, stand-alone
\* changes and warnings are those of before_list without its later
\* occurrences.
C15_DuplicatesReportedFirstSeenUsed ==
    /\ upgrade_outcome = "ok" =>
          \A j \in LaterOccurrences :
             /\ before_list[j] # FirstNamed(before_list[j].full_name)
                => CountIn(upgrade_set.errors, DuplicateName(before_list[j]))
                   = Cardinality({i \in LaterOccurrences :
                                     before_list[i] = before_list[j]})
             /\ InSeqOf(upgrade_set.errors,
                        DuplicateName(FirstNamed(before_list[j].full_name)))
    /\ upgrade_outcome # "none" /\ WithoutDuplicates.exc = NoExc =>
          /\ upgrade_outcome = "ok"
          /\ upgrade_set.upgrades = WithoutDuplicates.upgrades
          /\ upgrade_set.stand_alone_changes
             = WithoutDuplicates.stand_alone_changes
          /\ upgrade_set.warnings = WithoutDuplicates.warnings

C15_Witness ==
    /\ upgrade_outcome = "ok"
    /\ \E j \in LaterOccurrences :
          /\ before_list[j] # FirstNamed(before_list[j].full_name)
          /\ \E k \in 1..Len(upgrade_set.upgrades) :
                upgrade_set.upgrades[k].before
                = FirstNamed(before_list[j].full_name)

HasChangeOf(obj, types) ==
    \E k \in 1..Len(obj.changes) : obj.changes[k].change_type \in types

ImplicitAdd(obj) == Problem(obj, "implicit add")

OnlyAddAllowed(obj) ==
    Problem(obj, "can only add due to no previous version found")

\* after_list[i] is an object with a rename change, and what it is matched
\* under is the full name of no before object
RenamedFromUnknown(i) ==
    /\ IsSchemaObject(after_list[i])
    /\ HasChangeOf(after_list[i], {"rename"})
    /\ ~NamedBefore(MatchName(after_list[i]))

\* C17: in a constructed set, every analysis without a before object warns
\* 'implicit add' exactly when its after object declares no add change and
\* holds the ERROR 'can only add ...' exactly when it declares a remove,
\* rename or alter change; an after object renamed from a name no before
\* object has is analysed that way (None -> object) and its ERROR reaches
\* the set's errors.
C17_FreshObjectValidated ==
    upgrade_outcome = "ok" =>
        /\ \A k \in 1..Len(upgrade_set.upgrades) :
              LET u == upgrade_set.upgrades[k]
              IN u.before = NoneObj =>
                    /\ InSeqOf(u.warnings, ImplicitAdd(u.after))
                       <=> ~HasChangeOf(u.after, {"add"})
                    /\ InSeqOf(u.errors, OnlyAddAllowed(u.after))
                       <=> HasChangeOf(u.after,
                                       {"remove", "rename", "alter"})
        /\ \A i \in 1..Len(after_list) :
              RenamedFromUnknown(i) =>
                 /\ \E k \in 1..Len(upgrade_set.upgrades) :
                       /\ IsAnalysisOf(upgrade_set.upgrades[k], NoneObj,
                                       after_list[i])
                       /\ InSeqOf(upgrade_set.upgrades[k].errors,
                                  OnlyAddAllowed(after_list[i]))
                 /\ InSeqOf(upgrade_set.errors,
                            OnlyAddAllowed(after_list[i]))

\* a set with a before object, an after object renamed from an unknown
\* name, and a fresh after object that declares an add and a remove: no
\* warning, and the ERROR for the remove alone
C17_Witness ==
    /\ upgrade_outcome = "ok"
    /\ Len(before_list) > 0
    /\ \E i \in 1..Len(after_list) : RenamedFromUnknown(i)
    /\ \E k \in 1..Len(upgrade_set.upgrades) :
          /\ upgrade_set.upgrades[k].before = NoneObj
          /\ HasChangeOf(upgrade_set.upgrades[k].after, {"add"})
          /\ HasChangeOf(upgrade_set.upgrades[k].after, {"remove"})
          /\ ~HasChangeOf(upgrade_set.upgrades[k].after, {"rename", "alter"})
          /\ InSeqOf(upgrade_set.upgrades[k].errors,
                     OnlyAddAllowed(upgrade_set.upgrades[k].after))

\* the Order the elements of all_upgrades are to be sorted by: that of a
\* change, of the after element of an analysis, or of its before object
\* when there is no after element
OrderOf(x) ==
    IF "kind" \in DOMAIN x THEN x.order
    ELSE IF x.after # NoneObj THEN x.after.order
    ELSE x.before.order

IsAnalysis(x) == "cls" \in DOMAIN x

SameElements(s, t) ==
    /\ Len(s) = Len(t)
    /\ \A k \in 1..Len(s) : CountIn(s, s[k]) = CountIn(t, s[k])

\* C19: all_upgrades of a constructed set holds the stand-alone changes
\* and the upgrades of the set, each as often as the set holds it and
\* nothing else, in non-decreasing natural Order, and of two elements of
\* equal Order a stand-alone change is never behind an analysis.
C19_AllUpgradesSorted ==
    upgrade_outcome = "ok" =>
        LET all_upgrades == AllUpgrades(upgrade_set)
        IN /\ SameElements(all_upgrades,
                           upgrade_set.stand_alone_changes
                           \o upgrade_set.upgrades)
           /\ \A i, j \in 1..Len(all_upgrades) :
                 i < j =>
                    /\ OrderSub(OrderOf(all_upgrades[i]),
                                OrderOf(all_upgrades[j])) <= 0
                    /\ OrderSub(OrderOf(all_upgrades[i]),
                                OrderOf(all_upgrades[j])) = 0
                       => ~(IsAnalysis(all_upgrades[i])
                            /\ ~IsAnalysis(all_upgrades[j]))

\* the sort moved an element and kept a change ahead of an analysis of
\* equal Order
C19_Witness ==
    /\ upgrade_outcome = "ok"
    /\ AllUpgrades(upgrade_set)
       # upgrade_set.stand_alone_changes \o upgrade_set.upgrades
    /\ \E i, j \in 1..Len(AllUpgrades(upgrade_set)) :
          /\ i < j
          /\ ~IsAnalysis(AllUpgrades(upgrade_set)[i])
          /\ IsAnalysis(AllUpgrades(upgrade_set)[j])
          /\ OrderSub(OrderOf(AllUpgrades(upgrade_set)[i]),
                      OrderOf(AllUpgrades(upgrade_set)[j])) = 0

\* the list holds tables, views and columns only
OnlySchemaObjects(list) ==
    \A i \in 1..Len(list) : list[i].kind \in {"Table", "View", "Column"}

\* C28: constructing the SchemaUpgradedSet of a before list and an after
\* list made only of tables, views and columns, with or without
\* constraints, completes without raising.
C28_DiffingNeverRaises ==
    ( /\ upgrade_outcome # "none"
      /\ OnlySchemaObjects(before_list)
      /\ OnlySchemaObjects(after_list) )
    => upgrade_outcome = "ok"

(***************************************************************************)
(* Claims about the analysis classes.                                      *)
(***************************************************************************)
\* the nested column diff of a table or view analysis has changes
ColumnDiffHasChanges(ua) ==
    /\ ua.cls \in {"TableUpgradeAnalysis", "ViewUpgradeAnalysis"}
    /\ ua.column_upgrades # NoSet
    /\ SetHasChanges(ua.column_upgrades)

\* C14: has_changes() of a constructed analysis is true exactly when its
\* after element carries an authored change, or its constraint diff has
\* changes, or its column diff has changes; so the analysis of two equal
\* tables without changes has no changes.
C14_HasChangesIffChanged ==
    analysis_outcome = "ok" =>
        (AnalysisHasChanges(analysis)
         <=> \/ Len(AnalysisChanges(after_arg)) > 0
             \/ SetHasChanges(analysis.constraint_changes)
             \/ ColumnDiffHasChanges(analysis))

\* the number of authored changes of the after element of one of the types
CountTypes(types) ==
    Cardinality({k \in 1..Len(AnalysisChanges(after_arg)) :
                    AnalysisChanges(after_arg)[k].change_type \in types})

\* more than one add, remove or rename, or one of them next to an alter or
\* sql change
BadStructure ==
    \/ CountTypes({"add", "remove", "rename"}) > 1
    \/ /\ CountTypes({"add", "remove", "rename"}) > 0
       /\ CountTypes({"alter", "sql"}) > 0

StructureMessages ==
    {"at most 1 of an add, remove, or rename is allowed, "
     \o "and it cannot be done with an alter or sql change"}
    \cup {"at most 1 " \o ChangeTypeStr(cat) \o " is allowed" :
             cat \in {"add", "remove", "rename"}}

HasStructureError ==
    \E k \in 1..Len(analysis.errors) :
        /\ analysis.errors[k].obj = after_arg
        /\ analysis.errors[k].message \in StructureMessages

\* the after element as authored without changes
WithoutChanges ==
    IF IsSchemaObject(after_arg) THEN [after_arg EXCEPT !.changes = <<>>]
    ELSE after_arg

\* C16: a constructed analysis holds an ERROR about the structure of the
\* authored changes exactly when they hold more than one add, remove or
\* rename, or one of these together with an alter or sql change; and the
\* changes never make construction raise: it completes whenever it
\* completes for the same objects authored without changes.
C16_StructureValidated ==
    /\ analysis_outcome = "ok" => (HasStructureError <=> BadStructure)
    /\ /\ analysis_outcome # "none"
       /\ Construct(analysis_class, before_arg, WithoutChanges).exc = NoExc
       => analysis_outcome = "ok"

C16_Witness ==
    /\ analysis_outcome = "ok"
    /\ HasStructureError
    /\ CountTypes({"add", "remove", "rename"}) = 1
    /\ CountTypes({"alter", "sql"}) = 1

\* a table analysis was constructed on a view, or a view analysis on a
\* table, with an after object of the kind of the analysis and no
\* constraint on either side
KindMismatched ==
    /\ analysis_outcome # "none"
    /\ \/ /\ analysis_class = "TableUpgradeAnalysis"
          /\ before_arg.kind = "View"
          /\ after_arg.kind = "Table"
       \/ /\ analysis_class = "ViewUpgradeAnalysis"
          /\ before_arg.kind = "Table"
          /\ after_arg.kind = "View"
    /\ before_arg.constraints = <<>>
    /\ after_arg.constraints = <<>>

MismatchMessage ==
    IF analysis_class = "TableUpgradeAnalysis"
    THEN "cannot upgrade directly from a view to a table"
    ELSE "cannot upgrade directly from a table to a view"

\* C18: constructing a table analysis whose before object is a view, or a
\* view analysis whose before object is a table, completes and leaves the
\* ERROR 'cannot upgrade directly from a X to a Y' on the before object in
\* the errors of the analysis.
C18_KindMismatchIsError ==
    KindMismatched =>
        /\ analysis_outcome = "ok"
        /\ InSeqOf(analysis.errors, Problem(before_arg, MismatchMessage))

\* every problem of the list nested is one of the list own
AllIn(nested, own) == \A i \in 1..Len(nested) : InSeq(own, nested[i])

\* the problems of the nested diffs of a constructed analysis are among its
\* own
NestedProblemsKept(ua) ==
    /\ AllIn(ua.constraint_changes.errors, ua.errors)
    /\ AllIn(ua.constraint_changes.warnings, ua.warnings)
    /\ ua.column_upgrades # NoSet =>
          /\ AllIn(ua.column_upgrades.errors, ua.errors)
          /\ AllIn(ua.column_upgrades.warnings, ua.warnings)

\* C26: every error and warning of the nested constraint diff of a
\* constructed analysis, and of the nested column diff of a table or view
\* analysis, is among the errors and warnings of the analysis itself.
C26_NestedProblemsAggregated ==
    analysis_outcome = "ok" => NestedProblemsKept(analysis)

(***************************************************************************)
(* Claims about the branch analysis.                                       *)
(***************************************************************************)
\* C20: of a constructed BranchUpgradeAnalysis, is_upgrade is true exactly
\* when the branch has a parent; without a parent there is no upgrade set
\* and changes is the empty list; with a parent the payloads of the branch
\* and of its parent are loaded and changes is all_upgrades of the
\* SchemaUpgradedSet of the parent's schema and of the current version's
\* top_changes followed by its schema.
C20_BranchChanges ==
    branch_outcome = "ok" =>
        /\ IsUpgrade(branch_analysis) <=> current_branch.parent # NoneObj
        /\ current_branch.parent = NoneObj =>
              /\ branch_analysis.upgrade_set = NoSet
              /\ Changes(branch_analysis) = <<>>
        /\ current_branch.parent # NoneObj =>
              /\ current_branch.branch # NoneObj
              /\ current_branch.parent.branch # NoneObj
              /\ Changes(branch_analysis)
                 = AllUpgrades(SchemaUpgradedSet(
                       current_branch.parent.branch.schema,
                       current_branch.branch.top_changes
                       \o current_branch.branch.schema))

\* a lazy branch on a lazy parent was analysed, the current version has a
\* top change and a schema object, and changes holds both a change and an
\* analysis
C20_Witness ==
    /\ branch_outcome = "ok"
    /\ current_branch.parent # NoneObj
    /\ current_branch.branch_loader # NoneObj
    /\ current_branch.parent.branch_loader # NoneObj
    /\ parent_schema # <<>>
    /\ top_changes_arg # <<>>
    /\ schema_arg # <<>>
    /\ \E i, j \in 1..Len(Changes(branch_analysis)) :
          /\ IsAnalysis(Changes(branch_analysis)[i])
          /\ ~IsAnalysis(Changes(branch_analysis)[j])

\* a branch without a parent was analysed although its version has changes
C20_WitnessFirstBranch ==
    /\ branch_outcome = "ok"
    /\ current_branch.parent = NoneObj
    /\ top_changes_arg # <<>>
    /\ schema_arg # <<>>

\* the current version is the parent version over again: the same schema
\* and no top-level change
NoChangeFromParent ==
    /\ branch_outcome = "ok"
    /\ current_branch.parent # NoneObj
    /\ current_branch.branch.top_changes = <<>>
    /\ current_branch.branch.schema = current_branch.parent.branch.schema

\* C21: is_upgrade of a constructed BranchUpgradeAnalysis is False when the
\* branch has a parent and the current version has the schema of the parent
\* version and no top-level change.
C21_NoChangeIsNoUpgrade ==
    NoChangeFromParent => ~IsUpgrade(branch_analysis)

(***************************************************************************)
(* SchemaVersionNumber comparison (model/version.py).  A version number is *)
(* the tuple of its decimals; the comparisons are all derived from         *)
(* __sub__, which is not antisymmetric on a tuple and its proper prefix.   *)
(***************************************************************************)
\* the loop of SchemaVersionNumber.__sub__ from index idx on (1-based)
RECURSIVE VersionSubFrom(_, _, _)
VersionSubFrom(self, other, idx) ==
    IF idx > Len(self) THEN Len(self) - Len(other)
    ELSE IF idx > Len(other) THEN -1
    ELSE IF self[idx] - other[idx] # 0 THEN self[idx] - other[idx]
    ELSE VersionSubFrom(self, other, idx + 1)

\* SchemaVersionNumber.__sub__
VersionSub(self, other) == VersionSubFrom(self, other, 1)

\* SchemaVersionNumber.__lt__, __le__, __gt__, __ge__, __eq__
VersionLt(self, other) == VersionSub(self, other) < 0
VersionLe(self, other) == VersionSub(self, other) <= 0
VersionGt(self, other) == VersionSub(self, other) > 0
VersionGe(self, other) == VersionSub(self, other) >= 0
VersionEq(self, other) == VersionSub(self, other) = 0

\* SchemaVersionNumber.__hash__: the hash of the tuple of decimals, a
\* function of the decimals alone, which here stand for their hash
VersionHash(self) == [decimals |-> self]

(***************************************************************************)
(* Version comparison as a state machine: a caller builds two version      *)
(* numbers decimal by decimal and compares them in both directions.        *)
(***************************************************************************)
VARIABLES ver_a, ver_b, ver_cmp

vnVars == <<ver_a, ver_b, ver_cmp>>

\* the decimals version numbers are made of
Decimals == {1, 2, 5}

NotCompared == [done |-> FALSE]

InitVersion ==
    /\ ver_a = <<>>
    /\ ver_b = <<>>
    /\ ver_cmp = NotCompared

\* one more decimal in the first version number
append_decimal_a(d) ==
    /\ ver_cmp = NotCompared
    /\ Len(ver_a) < MaxVersionDepth
    /\ ver_a' = Append(ver_a, d)
    /\ UNCHANGED <<ver_b, ver_cmp>>

\* one more decimal in the second version number
append_decimal_b(d) ==
    /\ ver_cmp = NotCompared
    /\ Len(ver_b) < MaxVersionDepth
    /\ ver_b' = Append(ver_b, d)
    /\ UNCHANGED <<ver_a, ver_cmp>>

\* the comparisons of self with other
Comparisons(self, other) ==
    [sub |-> VersionSub(self, other), lt |-> VersionLt(self, other),
     le |-> VersionLe(self, other), gt |-> VersionGt(self, other),
     ge |-> VersionGe(self, other), eq |-> VersionEq(self, other),
     hash_eq |-> VersionHash(self) = VersionHash(other)]

\* a - b, a < b, ..., hash(a) == hash(b) and the same with b on the left
compare_versions ==
    /\ ver_cmp = NotCompared
    /\ ver_cmp' = [done |-> TRUE, ab |-> Comparisons(ver_a, ver_b),
                   ba |-> Comparisons(ver_b, ver_a)]
    /\ UNCHANGED <<ver_a, ver_b>>

NextVersion ==
    \/ \E d \in Decimals : append_decimal_a(d)
    \/ \E d \in Decimals : append_decimal_b(d)
    \/ compare_versions

(***************************************************************************)
(* Claims about version comparison.                                        *)
(***************************************************************************)
\* a is a proper prefix of b
ProperPrefix(a, b) == Len(a) < Len(b) /\ SubSeq(b, 1, Len(a)) = a

\* C22: when a is a proper prefix of b, the longer b compares as the
\* earlier whichever operand is on the left: b < a is true and a > b is
\* true.
C22_LongerIsEarlier ==
    (ver_cmp.done /\ ProperPrefix(ver_a, ver_b)) =>
        ver_cmp.ba.lt /\ ver_cmp.ab.gt

\* C29: the comparison is a strict total order consistent with equality:
\* exactly one of a < b, a == b, b < a holds, a < b iff b > a, and a == b
\* iff the tuples are identical, and then the hashes are equal.
C29_StrictTotalOrder ==
    ver_cmp.done =>
        /\ Cardinality({k \in {"lt", "eq", "tl"} :
                           \/ k = "lt" /\ ver_cmp.ab.lt
                           \/ k = "eq" /\ ver_cmp.ab.eq
                           \/ k = "tl" /\ ver_cmp.ba.lt}) = 1
        /\ ver_cmp.ab.lt <=> ver_cmp.ba.gt
        /\ ver_cmp.ab.eq <=> ver_a = ver_b
        /\ ver_cmp.ab.eq => ver_cmp.ab.hash_eq

(***************************************************************************)
(* SchemaPackage.get_newest_version.  The keys of __version_map are sorted *)
(* with list.sort(reverse=True), which compares with                       *)
(* SchemaVersionNumber.__lt__; as that comparison is no order, the result  *)
(* depends on the steps of the sort and on the order of the keys, which is *)
(* the order of their insertion into the dict.                             *)
(***************************************************************************)
\* list.reverse()
RECURSIVE Reversed(_)
Reversed(items) ==
    IF items = <<>> THEN <<>>
    ELSE Append(Reversed(Tail(items)), Head(items))

\* count_run of list.sort: the end of the descending run that starts the
\* list and reaches index i - 1
RECURSIVE DescendingRunEnd(_, _)
DescendingRunEnd(items, i) ==
    IF i > Len(items) THEN Len(items)
    ELSE IF VersionLt(items[i], items[i - 1])
         THEN DescendingRunEnd(items, i + 1)
    ELSE i - 1

\* count_run of list.sort: the end of the non-descending run that starts
\* the list and reaches index i - 1
RECURSIVE AscendingRunEnd(_, _)
AscendingRunEnd(items, i) ==
    IF i > Len(items) THEN Len(items)
    ELSE IF VersionLt(items[i], items[i - 1]) THEN i - 1
    ELSE AscendingRunEnd(items, i + 1)

\* the list with its first n elements reversed (reverse_sortslice)
ReverseRun(items, n) ==
    Reversed(SubSeq(items, 1, n)) \o SubSeq(items, n + 1, Len(items))

\* the list after count_run and the reversal of a descending run, and the
\* length of that run
FirstRun(items) ==
    IF Len(items) < 2 THEN [items |-> items, n |-> Len(items)]
    ELSE IF VersionLt(items[2], items[1])
         THEN [items |-> ReverseRun(items, DescendingRunEnd(items, 3)),
               n |-> DescendingRunEnd(items, 3)]
    ELSE [items |-> items, n |-> AscendingRunEnd(items, 3)]

\* the search loop of binarysort: the place of pivot in items[l..r-1]
RECURSIVE BinarySearch(_, _, _, _)
BinarySearch(items, pivot, l, r) ==
    IF l >= r THEN l
    ELSE IF VersionLt(pivot, items[l + ((r - l) \div 2)])
         THEN BinarySearch(items, pivot, l, l + ((r - l) \div 2))
    ELSE BinarySearch(items, pivot, l + ((r - l) \div 2) + 1, r)

\* items[start] moved to index l, the elements between shifted up
MoveTo(items, start, l) ==
    SubSeq(items, 1, l - 1) \o <<items[start]>>
    \o SubSeq(items, l, start - 1) \o SubSeq(items, start + 1, Len(items))

\* binarysort of list.sort: items[1..start-1] is a run, the rest is
\* inserted element by element
RECURSIVE BinarySort(_, _)
BinarySort(items, start) ==
    IF start > Len(items) THEN items
    ELSE BinarySort(MoveTo(items, start,
                           BinarySearch(items, items[start], 1, start)),
                    start + 1)

\* binarysort started after the first run
SortAfterRun(run) == BinarySort(run.items, run.n + 1)

\* versions.sort(reverse=True) of a list shorter than 64 elements
SortReverse(versions) == Reversed(SortAfterRun(FirstRun(Reversed(versions))))

\* SchemaPackage.get_newest_version
GetNewestVersion(pk) ==
    IF PkLen(pk) <= 0 THEN None
    ELSE pk.vm[SortReverse(pk.keys)[1]]

(***************************************************************************)
(* get_newest_version as a state machine: a caller registers versions of a *)
(* package, as load_package does, and asks for the newest version.         *)
(***************************************************************************)
VARIABLES newest_package, newest_outcome, newest

nwVars == <<newest_package, newest_outcome, newest>>

\* the version numbers of the package
NewestVersions == {<<1>>, <<1, 1>>, <<1, 5>>, <<2>>}

NotAsked == [asked |-> FALSE]

InitNewest ==
    /\ newest_package = EmptyPackage
    /\ newest_outcome = "none"
    /\ newest = NotAsked

\* the state after a registration call
Registered(pk) ==
    /\ newest_package' = pk
    /\ newest_outcome' = IF pk.exc = NoExc THEN "ok" ELSE pk.exc
    /\ newest' = NotAsked

CanRegister ==
    /\ newest_outcome \in {"none", "ok"}
    /\ Len(newest_package.keys) + Len(newest_package.upl)
       + Len(newest_package.upz) < MaxNewest

register_version(version, parent) ==
    /\ CanRegister
    /\ Registered(AddBranchVersion(newest_package, version, parent, 1))

register_loader(version, parent) ==
    /\ CanRegister
    /\ Registered(AddBranchLoader(newest_package, version, parent, 1))

\* package.get_newest_version()
get_newest_version ==
    /\ newest_outcome \in {"none", "ok"}
    /\ newest = NotAsked
    /\ newest' = [asked |-> TRUE,
                  branch |-> GetNewestVersion(newest_package)]
    /\ UNCHANGED <<newest_package, newest_outcome>>

NextNewest ==
    \/ \E v \in NewestVersions, p \in NewestVersions \cup {None} :
           register_version(v, p)
    \/ \E v \in NewestVersions, p \in NewestVersions \cup {None} :
           register_loader(v, p)
    \/ get_newest_version

(***************************************************************************)
(* Claims about get_newest_version.                                        *)
(***************************************************************************)
\* C3: registering a branch whose declared parent is not a resolved branch
\* returns normally, leaves the branch out of the resolved set
\* (get_version is None, len unchanged, get_newest_version unchanged: the
\* keys of __version_map and their order are as they were, and so is the
\* branch get_newest_version returns) and leaves every resolved branch
\* with its parent and children as it was; the registration is kept in the
\* deferred list of its path.
C3_DeferralIsNotRejection ==
    DeferralCall =>
        /\ outcome = "ok"
        /\ GetVersion(Package, lastCall.version) = None
        /\ PkLen(Package) = PkLen(prev)
        /\ version_map = prev.vm
        /\ version_keys = prev.keys
        /\ GetNewestVersion(Package) = GetNewestVersion(prev)
        /\ first_branches = prev.fb
        /\ Len(Deferred(Package)) = Len(Deferred(prev)) + 1
        /\ InSeq(Deferred(Package),
                 [parent |-> lastCall.parent, version |-> lastCall.version])

\* a deferral on a package that holds a parent with a child, stored in an
\* order in which get_newest_version does not return the last key, and an
\* earlier deferred registration
C3_Witness ==
    /\ DeferralCall
    /\ outcome = "ok"
    /\ PkLen(prev) > 1
    /\ \E v \in DOMAIN version_map : version_map[v].children # <<>>
    /\ Len(Deferred(prev)) > 0
    /\ GetNewestVersion(prev) # None
    /\ GetNewestVersion(prev).version # prev.keys[Len(prev.keys)]

\* C23: get_newest_version returns None when no branch is resolved, and
\* otherwise a resolved branch, never a deferred one, whose version number
\* is the maximum: every other resolved version compares less than it.
C23_NewestIsMaximum ==
    newest.asked =>
        IF DOMAIN newest_package.vm = {} THEN newest.branch = None
        ELSE /\ newest.branch # None
             /\ newest.branch.version \in DOMAIN newest_package.vm
             /\ newest.branch = newest_package.vm[newest.branch.version]
             /\ \A v \in DOMAIN newest_package.vm \ {newest.branch.version} :
                   VersionLt(v, newest.branch.version)

(***************************************************************************)
(* SchemaBranch.schema_version as a state machine: a caller creates a      *)
(* branch with its payload or with a loader of it, and reads               *)
(* schema_version again and again.  loader_calls is the list of the        *)
(* arguments the loader was called with, reads the list of the payloads    *)
(* the reads returned.                                                     *)
(***************************************************************************)
VARIABLES read_branch, read_version, loader_calls, reads

rdVars == <<read_branch, read_version, loader_calls, reads>>

\* the payloads of a branch
Payloads ==
    {SchemaVersion(tc, schema) :
        tc \in {<<>>, <<SqlChange(PlainOrder(0), "table")>>},
        schema \in {<<>>, <<PlainTable("old", <<>>, <<>>, <<>>)>>,
                    <<PlainTable("new", <<>>, <<>>, <<>>)>>}}

InitReads ==
    /\ read_branch = NoneObj
    /\ read_version = None
    /\ loader_calls = <<>>
    /\ reads = <<>>

\* SchemaBranch(None, package, branch=payload), payload.version = version
new_eager_branch(payload, version) ==
    /\ read_branch = NoneObj
    /\ read_branch' = MakeBranch(NoneObj, payload, FALSE)
    /\ read_version' = version
    /\ UNCHANGED <<loader_calls, reads>>

\* SchemaBranch(None, package, branch_loader=loader, version=version) with
\* a loader that returns payload
new_lazy_branch(payload, version) ==
    /\ read_branch = NoneObj
    /\ read_branch' = MakeBranch(NoneObj, payload, TRUE)
    /\ read_version' = version
    /\ UNCHANGED <<loader_calls, reads>>

\* the arguments the loader was called with after one more read
LoaderCallsAfter(b) ==
    IF b.branch = NoneObj THEN Append(loader_calls, read_version)
    ELSE loader_calls

\* branch.schema_version
read_schema_version ==
    /\ read_branch # NoneObj
    /\ Len(reads) < MaxReads
    /\ loader_calls' = LoaderCallsAfter(read_branch)
    /\ reads' = Append(reads, SchemaVersionOf(read_branch))
    /\ read_branch' = AfterSchemaVersion(read_branch)
    /\ UNCHANGED read_version

NextReads ==
    \/ \E payload \in Payloads, version \in Versions :
           new_eager_branch(payload, version)
    \/ \E payload \in Payloads, version \in Versions :
           new_lazy_branch(payload, version)
    \/ read_schema_version

(***************************************************************************)
(* Claims about the lazy payload.                                          *)
(***************************************************************************)
IsLazy(b) == b # NoneObj /\ b.branch_loader # NoneObj

\* the loader is called exactly on the first read, with the version of the
\* branch; is_branch_loaded is false before that read and true after it
ReadsLoadOnce ==
    /\ IsLazy(read_branch) =>
          /\ IsBranchLoaded(read_branch) <=> reads # <<>>
          /\ loader_calls = IF reads = <<>> THEN <<>> ELSE <<read_version>>
          /\ \A i \in 1..Len(reads) : reads[i] = read_branch.branch_loader
    /\ (read_branch # NoneObj /\ ~IsLazy(read_branch)) =>
          /\ loader_calls = <<>>
          /\ \A i \in 1..Len(reads) : reads[i] = read_branch.branch

\* a read after the first one calls no loader and returns the payload the
\* earlier reads returned
LaterReadIsMemoized ==
    (reads # <<>> /\ reads' # reads) =>
        /\ loader_calls' = loader_calls
        /\ reads' = Append(reads, reads[1])
        /\ IsLazy(read_branch')

\* C24: of a lazy branch the loader is called exactly once, on the first
\* read of schema_version and with the version of the branch;
\* is_branch_loaded is false before that read and true after it; every
\* later read returns the same payload and calls no loader; a branch
\* created with its payload never calls a loader.
C24_LoaderCalledOnce ==
    /\ []ReadsLoadOnce
    /\ [][IsLazy(read_branch) => LaterReadIsMemoized]_rdVars

\* a lazy branch was read several times and its loader called once
C24_Witness ==
    /\ IsLazy(read_branch)
    /\ Len(reads) >= 2
    /\ loader_calls = <<read_version>>

(***************************************************************************)
(* Order label cleaning as a state machine: a caller writes a label of     *)
(* occurs_before and a label of occurs_after, character by character, and  *)
(* constructs the Order of them.                                           *)
(***************************************************************************)
VARIABLES before_label, after_label, label_order

lbVars == <<before_label, after_label, label_order>>

\* the characters labels are written with
LabelChars == {"D", "d", "_", "."}

InitLabels ==
    /\ before_label = <<>>
    /\ after_label = <<>>
    /\ label_order = NoneObj

\* one more character in the occurs_before label
append_before_char(c) ==
    /\ label_order = NoneObj
    /\ Len(before_label) < MaxLabelLen
    /\ before_label' = Append(before_label, c)
    /\ UNCHANGED <<after_label, label_order>>

\* one more character in the occurs_after label
append_after_char(c) ==
    /\ label_order = NoneObj
    /\ Len(after_label) < MaxLabelLen
    /\ after_label' = Append(after_label, c)
    /\ UNCHANGED <<before_label, label_order>>

\* Order((0, 0, 0), [before_label], [after_label])
new_order ==
    /\ label_order = NoneObj
    /\ label_order' = NewOrder(<<0, 0, 0>>, <<before_label>>,
                               <<after_label>>)
    /\ UNCHANGED <<before_label, after_label>>

NextLabels ==
    \/ \E c \in LabelChars : append_before_char(c)
    \/ \E c \in LabelChars : append_after_char(c)
    \/ new_order

(***************************************************************************)
(* Claims about the labels of an Order.                                    *)
(***************************************************************************)
\* the lower-case form of a character
FoldChar(c) == IF c = "D" THEN "d" ELSE c

\* a label without the characters that are neither alphanumeric nor '.',
\* case-folded
RECURSIVE Normalized(_)
Normalized(label) ==
    IF label = <<>> THEN <<>>
    ELSE IF Head(label) \in {"D", "d", "."}
         THEN <<FoldChar(Head(label))>> \o Normalized(Tail(label))
    ELSE Normalized(Tail(label))

\* the labels an Order is to store for one written label
StoredFor(label) ==
    IF Normalized(label) = <<>> THEN <<>> ELSE <<Normalized(label)>>

\* C25: an Order stores each label without the characters other than
\* alphanumerics and '.' and case-folded, drops a label that becomes empty,
\* and so stores the same label for two written labels that differ only in
\* letter case or punctuation.
C25_LabelsNormalized ==
    label_order # NoneObj =>
        /\ label_order.before = StoredFor(before_label)
        /\ label_order.after = StoredFor(after_label)
        /\ Normalized(before_label) = Normalized(after_label)
           => label_order.before = label_order.after

(***************************************************************************)
(* Specifications: one per component, each leaving the others at rest.     *)
(***************************************************************************)
vars == <<pkVars, sortVars, upgVars, anVars, brVars, vnVars, nwVars, rdVars, lbVars>>

Init == InitPackage /\ InitSort /\ InitUpgrade /\ InitAnalysis /\ InitBranch
        /\ InitVersion /\ InitNewest /\ InitReads
        /\ InitLabels

Next == NextPackage /\ UNCHANGED <<sortVars, upgVars, anVars, brVars, vnVars, nwVars, rdVars, lbVars>>

Spec == Init /\ [][Next]_vars

SortNext == NextSort /\ UNCHANGED <<pkVars, upgVars, anVars, brVars, vnVars, nwVars, rdVars, lbVars>>

SortSpec == Init /\ [][SortNext]_vars

UpgradeNext == NextUpgrade /\ UNCHANGED <<pkVars, sortVars, anVars, brVars, vnVars, nwVars, rdVars, lbVars>>

UpgradeSpec == Init /\ [][UpgradeNext]_vars

AnalysisNext == NextAnalysis /\ UNCHANGED <<pkVars, sortVars, upgVars, brVars, vnVars, nwVars, rdVars, lbVars>>

AnalysisSpec == Init /\ [][AnalysisNext]_vars

BranchNext == NextBranch /\ UNCHANGED <<pkVars, sortVars, upgVars, anVars, vnVars, nwVars, rdVars, lbVars>>

BranchSpec == Init /\ [][BranchNext]_vars

VersionNext == NextVersion /\ UNCHANGED <<pkVars, sortVars, upgVars, anVars, brVars, nwVars, rdVars, lbVars>>

VersionSpec == Init /\ [][VersionNext]_vars

NewestNext == NextNewest /\ UNCHANGED <<pkVars, sortVars, upgVars, anVars, brVars, vnVars, rdVars, lbVars>>

NewestSpec == Init /\ [][NewestNext]_vars

ReadsNext == NextReads /\ UNCHANGED <<pkVars, sortVars, upgVars, anVars, brVars, vnVars, nwVars, lbVars>>

ReadsSpec == Init /\ [][ReadsNext]_vars

LabelsNext == NextLabels /\ UNCHANGED <<pkVars, sortVars, upgVars, anVars, brVars, vnVars, nwVars, rdVars>>

LabelsSpec == Init /\ [][LabelsNext]_vars
====
